---- MODULE Spec2Model ----
(***************************************************************************)
(* A model of classno: the recursive cast / validate matcher over type     *)
(* hints, the declaration hooks that build the field table and install     *)
(* the attribute hooks, the construction protocol and the attribute-write  *)
(* pipeline.                                                               *)
(***************************************************************************)
EXTENDS Integers, Sequences, FiniteSets, TLC

(***************************************************************************)
(* Runtime values.  Every value is a record of the same four fields:       *)
(*   k  the runtime class; n  the number of an int / bool (0, 1) / float   *)
(*   (in tenths: 425 is 42.5); s  the characters of a str; e  the          *)
(*   elements of a list / tuple, or the (key, value) pairs of a dict in    *)
(*   insertion order.                                                      *)
(***************************************************************************)
NoneV == [k |-> "none", n |-> 0, s |-> <<>>, e |-> <<>>]
BoolV(b) == [k |-> "bool", n |-> IF b THEN 1 ELSE 0, s |-> <<>>, e |-> <<>>]
IntV(i) == [k |-> "int", n |-> i, s |-> <<>>, e |-> <<>>]
FloatV(tenths) == [k |-> "float", n |-> tenths, s |-> <<>>, e |-> <<>>]
StrV(chars) == [k |-> "str", n |-> 0, s |-> chars, e |-> <<>>]
ListV(es) == [k |-> "list", n |-> 0, s |-> <<>>, e |-> es]
TupleV(es) == [k |-> "tuple", n |-> 0, s |-> <<>>, e |-> es]
PairV(key, val) == [k |-> "pair", n |-> 0, s |-> <<>>, e |-> <<key, val>>]
DictV(pairs) == [k |-> "dict", n |-> 0, s |-> <<>>, e |-> pairs]
SetV(es) == [k |-> "set", n |-> 0, s |-> <<>>, e |-> es]
ByteArrayV(es) == [k |-> "bytearray", n |-> 0, s |-> <<>>, e |-> es]
\* a set or frozenset holds its elements in iteration order
FrozenSetV(es) == [k |-> "frozenset", n |-> 0, s |-> <<>>, e |-> es]
DequeV(es) == [k |-> "deque", n |-> 0, s |-> <<>>, e |-> es]
CounterV(pairs) == [k |-> "Counter", n |-> 0, s |-> <<>>, e |-> pairs]
\* an instance of a user class that is no container
ObjV(cls) == [k |-> cls, n |-> 0, s |-> <<>>, e |-> <<>>]
\* the member descriptor that a class with __slots__ holds under a slot name
DescV(name) == [k |-> "desc", n |-> 0, s |-> <<name>>, e |-> <<>>]

(***************************************************************************)
(* Type hints.  o is the class (or the origin of a generic alias), g says  *)
(* whether typing.get_origin(hint) is set, args is typing.get_args(hint).  *)
(***************************************************************************)
Simple(o) == [o |-> o, g |-> FALSE, args |-> <<>>]
IntT == Simple("int")
StrT == Simple("str")
FloatT == Simple("float")
BoolT == Simple("bool")
NoneT == Simple("NoneType")
BareListT == Simple("list")
EllipsisT == Simple("Ellipsis")
ListOf(t) == [o |-> "list", g |-> TRUE, args |-> <<t>>]
DictOf(kt, vt) == [o |-> "dict", g |-> TRUE, args |-> <<kt, vt>>]
TupleOf(ts) == [o |-> "tuple", g |-> TRUE, args |-> ts]
UnionOf(ts) == [o |-> "Union", g |-> TRUE, args |-> ts]
SetOf(t) == [o |-> "set", g |-> TRUE, args |-> <<t>>]
FrozenSetOf(t) == [o |-> "frozenset", g |-> TRUE, args |-> <<t>>]
DequeOf(t) == [o |-> "deque", g |-> TRUE, args |-> <<t>>]
\* typing.Counter[K]: the alias carries the key shape only
CounterOf(kt) == [o |-> "Counter", g |-> TRUE, args |-> <<kt>>]
\* typing.Sequence[T], typing.Iterable[T]: abstract classes of collections.abc
SequenceOf(t) == [o |-> "Sequence", g |-> TRUE, args |-> <<t>>]
IterableOf(t) == [o |-> "Iterable", g |-> TRUE, args |-> <<t>>]
\* typing.ForwardRef("Name"): no origin; the referenced name is kept in args
ForwardRef(name) == [o |-> "ForwardRef", g |-> FALSE, args |-> <<Simple(name)>>]
Optional(t) == UnionOf(<<t, NoneT>>)

\* the dict classes: dict and its subclasses in collections
DictKinds == {"dict", "defaultdict", "OrderedDict", "Counter"}

\* isinstance(value, cls) for the classes of the model (bool is a subclass of
\* int, Counter and the like are subclasses of dict)
IsInstance(v, o) ==
  CASE o = "int" -> v.k \in {"int", "bool"}
    [] o = "NoneType" -> v.k = "none"
    [] o = "dict" -> v.k \in DictKinds
    [] o = "Sequence" -> v.k \in {"list", "tuple", "str", "deque", "bytearray"}
    [] o = "Iterable" -> v.k \in {"list", "tuple", "str", "deque", "bytearray",
                                  "set", "frozenset"} \cup DictKinds
    [] OTHER -> v.k = o

\* type(value).__name__
ClassName(v) ==
  CASE v.k = "none" -> "NoneType"
    [] v.k = "desc" -> "member_descriptor"
    [] OTHER -> v.k

(***************************************************************************)
(* Text: str(), repr() and the parsers behind int(str) and float(str).     *)
(***************************************************************************)
Digits == <<"0", "1", "2", "3", "4", "5", "6", "7", "8", "9">>
IsDigit(c) == \E i \in 1..10 : Digits[i] = c
DigitVal(c) == (CHOOSE i \in 1..10 : Digits[i] = c) - 1

RECURSIVE NatToChars(_)
NatToChars(i) ==
  IF i < 10 THEN <<Digits[i + 1]>>
  ELSE NatToChars(i \div 10) \o <<Digits[(i % 10) + 1]>>

IntToChars(i) == IF i < 0 THEN <<"-">> \o NatToChars(-i) ELSE NatToChars(i)

Abs(i) == IF i < 0 THEN -i ELSE i

FloatToChars(t) ==
  (IF t < 0 THEN <<"-">> ELSE <<>>)
    \o NatToChars(Abs(t) \div 10) \o <<".">> \o <<Digits[(Abs(t) % 10) + 1]>>

\* int(float): truncation toward zero
Trunc(t) == IF t < 0 THEN -(Abs(t) \div 10) ELSE t \div 10

RECURSIVE ReprChars(_)
RECURSIVE JoinRepr(_, _)
JoinRepr(es, i) ==
  IF i > Len(es) THEN <<>>
  ELSE (IF i > 1 THEN <<",", " ">> ELSE <<>>)
         \o (IF es[i].k = "pair"
             THEN ReprChars(es[i].e[1]) \o <<":", " ">> \o ReprChars(es[i].e[2])
             ELSE ReprChars(es[i]))
         \o JoinRepr(es, i + 1)

ReprChars(v) ==
  CASE v.k = "none" -> <<"N", "o", "n", "e">>
    [] v.k = "bool" -> IF v.n = 1 THEN <<"T", "r", "u", "e">>
                       ELSE <<"F", "a", "l", "s", "e">>
    [] v.k = "int" -> IntToChars(v.n)
    [] v.k = "float" -> FloatToChars(v.n)
    [] v.k = "str" -> <<"'">> \o v.s \o <<"'">>
    [] v.k = "list" -> <<"[">> \o JoinRepr(v.e, 1) \o <<"]">>
    [] v.k = "tuple" -> <<"(">> \o JoinRepr(v.e, 1)
                          \o (IF Len(v.e) = 1 THEN <<",">> ELSE <<>>) \o <<")">>
    [] v.k = "dict" -> <<"{">> \o JoinRepr(v.e, 1) \o <<"}">>
    [] v.k = "set" -> IF v.e = <<>> THEN <<"s", "e", "t", "(", ")">>
                      ELSE <<"{">> \o JoinRepr(v.e, 1) \o <<"}">>
    [] v.k = "bytearray" -> <<"b", "y", "t", "e", "a", "r", "r", "a", "y", "(">>
                              \o JoinRepr(v.e, 1) \o <<")">>
    [] v.k = "frozenset" -> <<"frozenset", "(">>
                              \o (IF v.e = <<>> THEN <<>>
                                  ELSE <<"{">> \o JoinRepr(v.e, 1) \o <<"}">>)
                              \o <<")">>
    [] v.k = "deque" -> <<"deque", "(", "[">> \o JoinRepr(v.e, 1) \o <<"]", ")">>
    [] v.k = "Counter" -> <<"Counter", "(">>
                            \o (IF v.e = <<>> THEN <<>>
                                ELSE <<"{">> \o JoinRepr(v.e, 1) \o <<"}">>)
                            \o <<")">>
    [] v.k = "desc" -> <<"<", "member", " ", "'">> \o v.s \o <<"'", ">">>
    [] OTHER -> <<"<", v.k, " ", "object", ">">>

\* str(value)
StrChars(v) == IF v.k = "str" THEN v.s ELSE ReprChars(v)

RECURSIVE Strip(_)
Strip(cs) ==
  IF cs = <<>> THEN cs
  ELSE IF Head(cs) = " " THEN Strip(Tail(cs))
  ELSE IF cs[Len(cs)] = " " THEN Strip(SubSeq(cs, 1, Len(cs) - 1))
  ELSE cs

RECURSIVE DigitsVal(_)
DigitsVal(cs) ==
  IF cs = <<>> THEN 0
  ELSE 10 * DigitsVal(SubSeq(cs, 1, Len(cs) - 1)) + DigitVal(cs[Len(cs)])

AllDigits(cs) == cs # <<>> /\ \A i \in 1..Len(cs) : IsDigit(cs[i])

\* int("..."): surrounding blanks, an optional sign, decimal digits
ParseInt(chars) ==
  LET cs == Strip(chars)
      signed == cs # <<>> /\ Head(cs) \in {"+", "-"}
      body == IF signed THEN Tail(cs) ELSE cs
  IN IF AllDigits(body)
     THEN [ok |-> TRUE,
           n |-> IF signed /\ Head(cs) = "-" THEN -DigitsVal(body) ELSE DigitsVal(body)]
     ELSE [ok |-> FALSE, n |-> 0]

\* float("..."): as int, or digits "." one digit (values are kept in tenths)
ParseFloat(chars) ==
  LET cs == Strip(chars)
      signed == cs # <<>> /\ Head(cs) \in {"+", "-"}
      body == IF signed THEN Tail(cs) ELSE cs
      sgn == IF signed /\ Head(cs) = "-" THEN -1 ELSE 1
      L == Len(body)
  IN IF AllDigits(body) THEN [ok |-> TRUE, n |-> sgn * 10 * DigitsVal(body)]
     ELSE IF L >= 3 /\ body[L - 1] = "." /\ IsDigit(body[L])
             /\ AllDigits(SubSeq(body, 1, L - 2))
     THEN [ok |-> TRUE,
           n |-> sgn * (10 * DigitsVal(SubSeq(body, 1, L - 2)) + DigitVal(body[L]))]
     ELSE [ok |-> FALSE, n |-> 0]

\* str.lower() on the letters the boolean vocabulary uses
LowerChar(c) ==
  CASE c = "T" -> "t" [] c = "R" -> "r" [] c = "U" -> "u" [] c = "E" -> "e"
    [] c = "F" -> "f" [] c = "A" -> "a" [] c = "L" -> "l" [] c = "S" -> "s"
    [] c = "Y" -> "y" [] c = "N" -> "n" [] c = "O" -> "o"
    [] OTHER -> c
Lower(cs) == [i \in 1..Len(cs) |-> LowerChar(cs[i])]

\* bool(value) for a value that is not text
Truthy(v) ==
  CASE v.k \in {"bool", "int", "float"} -> v.n # 0
    [] v.k = "none" -> FALSE
    [] v.k = "str" -> v.s # <<>>
    [] v.k \in {"list", "tuple", "set", "bytearray", "frozenset", "deque"}
         \cup DictKinds -> v.e # <<>>
    [] OTHER -> TRUE

(***************************************************************************)
(* Outcomes of a call: a returned value (same: the very object passed in)  *)
(* or a raised exception of class exc.                                     *)
(***************************************************************************)
Ok(v, same) == [ok |-> TRUE, v |-> v, same |-> same, exc |-> "", msg |-> ""]
Raise(exc, msg) == [ok |-> FALSE, v |-> NoneV, same |-> FALSE, exc |-> exc, msg |-> msg]

\* iter(value): the elements a for-loop over the value sees
Iterate(v) ==
  CASE v.k \in {"list", "tuple", "set", "bytearray", "frozenset", "deque"} ->
         [ok |-> TRUE, es |-> v.e]
    [] v.k \in DictKinds -> [ok |-> TRUE, es |-> [i \in 1..Len(v.e) |-> v.e[i].e[1]]]
    [] v.k = "str" -> [ok |-> TRUE, es |-> [i \in 1..Len(v.s) |-> StrV(<<v.s[i]>>)]]
    [] OTHER -> [ok |-> FALSE, es |-> <<>>]

HasLen(v) ==
  v.k \in {"list", "tuple", "str", "set", "bytearray", "frozenset", "deque"} \cup DictKinds
PyLen(v) == IF v.k = "str" THEN Len(v.s) ELSE Len(v.e)

RECURSIVE Hashable(_)
Hashable(v) ==
  CASE v.k \in {"list", "set", "bytearray", "deque"} \cup DictKinds -> FALSE
    [] v.k \in {"tuple", "frozenset"} -> \A i \in 1..Len(v.e) : Hashable(v.e[i])
    [] OTHER -> TRUE

\* a == b: numbers compare by value across int, bool and float, sequences of
\* the same class element by element, sets and frozensets by their members,
\* dicts (of any dict class) by their items whatever the insertion order
RECURSIVE PyEq(_, _)
PyEq(a, b) ==
  LET num == {"int", "bool", "float"}
      val(x) == IF x.k = "float" THEN x.n ELSE 10 * x.n
      sets == {"set", "frozenset"}
  IN IF a.k \in num /\ b.k \in num THEN val(a) = val(b)
     ELSE IF a.k = b.k /\ a.k \in {"tuple", "list", "deque", "pair"}
     THEN Len(a.e) = Len(b.e) /\ \A i \in 1..Len(a.e) : PyEq(a.e[i], b.e[i])
     ELSE IF a.k \in sets /\ b.k \in sets
     THEN Len(a.e) = Len(b.e)
          /\ \A i \in 1..Len(a.e) : \E j \in 1..Len(b.e) : PyEq(a.e[i], b.e[j])
     ELSE IF a.k \in DictKinds /\ b.k \in DictKinds
     THEN Len(a.e) = Len(b.e)
          /\ \A i \in 1..Len(a.e) : \E j \in 1..Len(b.e) : PyEq(a.e[i], b.e[j])
     ELSE a = b

\* d[key] = val on the pair sequence of a dict
DictSet(pairs, key, val) ==
  IF \E i \in 1..Len(pairs) : PyEq(pairs[i].e[1], key)
  THEN [i \in 1..Len(pairs) |->
          IF PyEq(pairs[i].e[1], key) THEN PairV(pairs[i].e[1], val) ELSE pairs[i]]
  ELSE Append(pairs, PairV(key, val))

\* hint(value) for a simple hint the value is not an instance of
CallClass(o, v) ==
  CASE o = "int" ->
         IF v.k = "float" THEN Ok(IntV(Trunc(v.n)), FALSE)
         ELSE IF v.k = "str"
         THEN (IF ParseInt(v.s).ok THEN Ok(IntV(ParseInt(v.s).n), FALSE)
               ELSE Raise("ValueError", "literal"))
         ELSE Raise("TypeError", "argument")
    [] o = "float" ->
         IF v.k \in {"int", "bool"} THEN Ok(FloatV(10 * v.n), FALSE)
         ELSE IF v.k = "str"
         THEN (IF ParseFloat(v.s).ok THEN Ok(FloatV(ParseFloat(v.s).n), FALSE)
               ELSE Raise("ValueError", "literal"))
         ELSE Raise("TypeError", "argument")
    [] o = "str" -> Ok(StrV(StrChars(v)), FALSE)
    [] o = "bool" -> Ok(BoolV(Truthy(v)), FALSE)
    [] o = "list" ->
         IF Iterate(v).ok THEN Ok(ListV(Iterate(v).es), FALSE)
         ELSE Raise("TypeError", "iter")
    [] OTHER -> Raise("TypeError", "argument")

(***************************************************************************)
(* _casting.py                                                             *)
(***************************************************************************)
RECURSIVE cast_value(_, _)
RECURSIVE CastEach(_, _, _)
RECURSIVE CastZip(_, _, _, _)
RECURSIVE CastItems(_, _, _, _, _)
RECURSIVE UnionMemberScan(_, _, _)
RECURSIVE UnionCastScan(_, _, _, _)
RECURSIVE AfterMemberScan(_, _, _)
RECURSIVE CastAdd(_, _, _, _)
RECURSIVE MakeSet(_, _, _)

\* set(iterable) / frozenset(iterable) on the elements: an unhashable element
\* raises TypeError, an element equal to an earlier one is dropped
MakeSet(es, i, acc) ==
  IF i > Len(es) THEN [ok |-> TRUE, vs |-> acc]
  ELSE IF ~Hashable(es[i]) THEN [ok |-> FALSE, vs |-> <<>>]
  ELSE IF \E j \in 1..Len(acc) : PyEq(acc[j], es[i]) THEN MakeSet(es, i + 1, acc)
  ELSE MakeSet(es, i + 1, Append(acc, es[i]))

\* origin(new_collection) at the end of cast_collection
CallOrigin(o, es) ==
  CASE o = "list" -> Ok(ListV(es), FALSE)
    [] o = "set" -> IF MakeSet(es, 1, <<>>).ok
                    THEN Ok(SetV(MakeSet(es, 1, <<>>).vs), FALSE)
                    ELSE Raise("TypeError", "unhashable")
    [] OTHER -> Raise("TypeError", "instantiate")

\* the loop "for el in value: new.append(cast_value(el, tp))"; the first
\* exception leaves the loop
CastEach(es, tp, i) ==
  IF i > Len(es) THEN [ok |-> TRUE, vs |-> <<>>, err |-> Raise("", "")]
  ELSE LET r == cast_value(es[i], tp)
       IN IF ~r.ok THEN [ok |-> FALSE, vs |-> <<>>, err |-> r]
          ELSE LET rest == CastEach(es, tp, i + 1)
               IN IF rest.ok THEN [rest EXCEPT !.vs = <<r.v>> \o rest.vs] ELSE rest

\* the loop "for tp, val in zip(tps, value)"
CastZip(tps, es, i, n) ==
  IF i > n THEN [ok |-> TRUE, vs |-> <<>>, err |-> Raise("", "")]
  ELSE LET r == cast_value(es[i], tps[i])
       IN IF ~r.ok THEN [ok |-> FALSE, vs |-> <<>>, err |-> r]
          ELSE LET rest == CastZip(tps, es, i + 1, n)
               IN IF rest.ok THEN [rest EXCEPT !.vs = <<r.v>> \o rest.vs] ELSE rest

\* the loop of cast_dict over value.items(), building new_dict
CastItems(pairs, kt, vt, i, acc) ==
  IF i > Len(pairs) THEN Ok(DictV(acc), FALSE)
  ELSE LET rk == cast_value(pairs[i].e[1], kt)
       IN IF ~rk.ok THEN rk
          ELSE LET rv == cast_value(pairs[i].e[2], vt)
               IN IF ~rv.ok THEN rv
                  ELSE IF ~Hashable(rk.v) THEN Raise("TypeError", "unhashable")
                  ELSE CastItems(pairs, kt, vt, i + 1, DictSet(acc, rk.v, rv.v))

cast_dict(value, hint) ==
  IF Len(hint.args) # 2 THEN Raise("ValueError", "unpack")
  ELSE IF value.k \notin DictKinds THEN Raise("AttributeError", "items")
  ELSE CastItems(value.e, hint.args[1], hint.args[2], 1, <<>>)

cast_collection(value, hint) ==
  LET it == Iterate(value)
  IN IF ~it.ok THEN Raise("TypeError", "iter")
     ELSE LET r == CastEach(it.es, hint.args[1], 1)
          IN IF r.ok THEN CallOrigin(hint.o, r.vs) ELSE r.err

\* a caster that leaves the element count to zip, which stops at the shorter
cast_tuple_zip_shortest(value, hint) ==
  LET tps == hint.args
      it == Iterate(value)
      n == IF Len(tps) < Len(it.es) THEN Len(tps) ELSE Len(it.es)
  IN IF Len(tps) = 2 /\ tps[2] = EllipsisT
     THEN (IF ~it.ok THEN Raise("TypeError", "iter")
           ELSE LET r == CastEach(it.es, tps[1], 1)
                IN IF r.ok THEN Ok(TupleV(r.vs), FALSE) ELSE r.err)
     ELSE IF ~it.ok THEN Raise("TypeError", "iter")
     ELSE LET r == CastZip(tps, it.es, 1, n)
          IN IF r.ok THEN Ok(TupleV(r.vs), FALSE) ELSE r.err

cast_tuple(value, hint) ==
  LET tps == hint.args
      it == Iterate(value)
  IN IF Len(tps) = 2 /\ tps[2] = EllipsisT
     THEN (IF ~it.ok THEN Raise("TypeError", "iter")
           ELSE LET r == CastEach(it.es, tps[1], 1)
                IN IF r.ok THEN Ok(TupleV(r.vs), FALSE) ELSE r.err)
     ELSE IF ~HasLen(value) THEN Raise("TypeError", "len")
     ELSE IF Len(tps) # PyLen(value) THEN Raise("TypeError", "arity")
     ELSE LET r == CastZip(tps, it.es, 1, Len(tps))
          IN IF r.ok THEN Ok(TupleV(r.vs), FALSE) ELSE r.err

\* the loop "for el in value: new_set.add(cast_value(el, tp))"
CastAdd(es, tp, i, acc) ==
  IF i > Len(es) THEN Ok(FrozenSetV(acc), FALSE)
  ELSE LET r == cast_value(es[i], tp)
       IN IF ~r.ok THEN r
          ELSE IF ~Hashable(r.v) THEN Raise("TypeError", "unhashable")
          ELSE IF \E j \in 1..Len(acc) : PyEq(acc[j], r.v)
          THEN CastAdd(es, tp, i + 1, acc)
          ELSE CastAdd(es, tp, i + 1, Append(acc, r.v))

cast_frozenset(value, hint) ==
  IF ~Iterate(value).ok THEN Raise("TypeError", "iter")
  ELSE CastAdd(Iterate(value).es, hint.args[1], 1, <<>>)

cast_deque(value, hint) ==
  LET it == Iterate(value)
  IN IF ~it.ok THEN Raise("TypeError", "iter")
     ELSE LET r == CastEach(it.es, hint.args[1], 1)
          IN IF r.ok THEN Ok(DequeV(r.vs), FALSE) ELSE r.err

\* hasattr(origin, "__iter__") and not issubclass(origin, (str, bytes)), for an
\* origin without a handler
OriginIterable(o) == o \in {"Sequence", "Iterable", "bytearray"}

\* the origins CASTING_ORIGIN_HANDLER has a caster for
CastingOrigins == {"dict", "list", "set", "tuple", "frozenset", "deque",
                   "defaultdict", "OrderedDict", "Counter"}

\* CASTING_ORIGIN_HANDLER.get(origin), applied
CASTING_ORIGIN_HANDLER(value, hint) ==
  CASE hint.o \in DictKinds -> cast_dict(value, hint)
    [] hint.o \in {"list", "set"} -> cast_collection(value, hint)
    [] hint.o = "frozenset" -> cast_frozenset(value, hint)
    [] hint.o = "deque" -> cast_deque(value, hint)
    [] OTHER -> cast_tuple(value, hint)

\* first loop of the union branch: is the value already of a member type?
\* hit = the loop returned (or an exception left it)
UnionMemberScan(value, args, i) ==
  IF i > Len(args) THEN [hit |-> FALSE, r |-> Raise("", "")]
  ELSE LET sub == args[i]
       IN IF sub = NoneT THEN UnionMemberScan(value, args, i + 1)
          ELSE IF sub.o = "ForwardRef"
          THEN [hit |-> TRUE, r |-> Raise("TypeError", "isinstance")]
          ELSE IF ~sub.g /\ IsInstance(value, sub.o)
          THEN [hit |-> TRUE, r |-> Ok(value, TRUE)]
          ELSE IF sub.g /\ IsInstance(value, sub.o)
          THEN LET r == cast_value(value, sub)
               IN IF r.ok \/ r.exc # "TypeError" THEN [hit |-> TRUE, r |-> r]
                  ELSE [hit |-> TRUE, r |-> Ok(value, TRUE)]
          ELSE UnionMemberScan(value, args, i + 1)

\* second loop of the union branch: cast into each member in order
UnionCastScan(value, args, i, hint) ==
  IF i > Len(args) THEN Raise("TypeError", "union")
  ELSE LET sub == args[i]
       IN IF sub = NoneT /\ value # NoneV THEN UnionCastScan(value, args, i + 1, hint)
          ELSE LET r == cast_value(value, sub)
               IN IF r.ok \/ r.exc # "TypeError" THEN r
                  ELSE UnionCastScan(value, args, i + 1, hint)

\* the except clause of the primitive branch: ValueError and TypeError of
\* hint(value) become the TypeError of the caster
AsCastingError(r) ==
  IF r.ok THEN r
  ELSE IF r.exc \in {"ValueError", "TypeError"} THEN Raise("TypeError", "convert")
  ELSE r

\* the union branch after its first loop
AfterMemberScan(scan, value, hint) ==
  IF scan.hit THEN scan.r ELSE UnionCastScan(value, hint.args, 1, hint)

cast_value(value, hint) ==
  IF hint.o = "Union"
  THEN IF value = NoneV /\ \E i \in 1..Len(hint.args) : hint.args[i] = NoneT
       THEN Ok(NoneV, TRUE)
       ELSE AfterMemberScan(UnionMemberScan(value, hint.args, 1), value, hint)
  ELSE IF hint.o = "ForwardRef" THEN Raise("TypeError", "isinstance")
  ELSE IF ~hint.g /\ ~IsInstance(value, hint.o)
  THEN IF hint.o = "bool" /\ value.k = "str"
       THEN (IF Lower(value.s) \in {<<"t", "r", "u", "e">>, <<"1">>, <<"y", "e", "s">>}
             THEN Ok(BoolV(TRUE), FALSE)
             ELSE IF Lower(value.s) \in {<<"f", "a", "l", "s", "e">>, <<"0">>,
                                         <<"n", "o">>, <<>>}
             THEN Ok(BoolV(FALSE), FALSE)
             ELSE Raise("TypeError", "convert"))
       ELSE AsCastingError(CallClass(hint.o, value))
  ELSE IF hint.g /\ hint.o \in CastingOrigins THEN CASTING_ORIGIN_HANDLER(value, hint)
  ELSE IF hint.g /\ IsInstance(value, hint.o) THEN Ok(value, TRUE)
  ELSE IF hint.g /\ OriginIterable(hint.o) THEN cast_collection(value, hint)
  ELSE IF hint.g THEN Raise("TypeError", "no handler")
  ELSE Ok(value, TRUE)

(***************************************************************************)
(* _validation.py: TRUE when validate_value_hint returns, FALSE when it    *)
(* raises TypeError                                                        *)
(***************************************************************************)
RECURSIVE validate_value_hint(_, _)

validate_simple_type(value, hint) == IsInstance(value, hint.o)

validate_union(value, hint) ==
  \E i \in 1..Len(hint.args) : validate_value_hint(value, hint.args[i])

\* isinstance(key, keys_type): a generic alias is no class (TypeError), a
\* union of classes is
KeyIsInstance(key, kt) ==
  IF kt.o = "Union"
  THEN (\A i \in 1..Len(kt.args) : ~kt.args[i].g)
       /\ \E i \in 1..Len(kt.args) : IsInstance(key, kt.args[i].o)
  ELSE ~kt.g /\ IsInstance(key, kt.o)

validate_dict(value, hint) ==
  LET kt == hint.args[1]
      vt == IF Len(hint.args) = 1 THEN IntT ELSE hint.args[2]
  IN Len(hint.args) \notin {1, 2}
     \/ ( /\ \A i \in 1..Len(value.e) : KeyIsInstance(value.e[i].e[1], kt)
          /\ \A i \in 1..Len(value.e) : validate_value_hint(value.e[i].e[2], vt) )

validate_collection(value, hint) ==
  \A i \in 1..Len(Iterate(value).es) :
     validate_value_hint(Iterate(value).es[i], hint.args[1])

validate_tuple(value, hint) ==
  LET tps == hint.args
  IN IF Len(tps) = 2 /\ tps[2] = EllipsisT
     THEN \A i \in 1..Len(value.e) : validate_value_hint(value.e[i], tps[1])
     ELSE Len(tps) = Len(value.e)
          /\ \A i \in 1..Len(tps) : validate_value_hint(value.e[i], tps[i])

validate_frozenset(value, hint) ==
  \A i \in 1..Len(value.e) : validate_value_hint(value.e[i], hint.args[1])

validate_deque(value, hint) ==
  \A i \in 1..Len(value.e) : validate_value_hint(value.e[i], hint.args[1])

\* VALIDATION_ORIGIN_HANDLER.get(origin), applied
VALIDATION_ORIGIN_HANDLER(value, hint) ==
  CASE hint.o \in DictKinds -> validate_dict(value, hint)
    [] hint.o \in {"list", "set"} -> validate_collection(value, hint)
    [] hint.o = "frozenset" -> validate_frozenset(value, hint)
    [] hint.o = "deque" -> validate_deque(value, hint)
    [] OTHER -> validate_tuple(value, hint)

validate_with_origin(value, hint) ==
  IsInstance(value, hint.o)
  /\ IF hint.o \in CastingOrigins THEN VALIDATION_ORIGIN_HANDLER(value, hint)
     ELSE OriginIterable(hint.o) /\ validate_collection(value, hint)

\* a check that stops at hasattr(value, "__class__")
validate_forward_ref_any_object(value, hint) == TRUE

\* the class name of the value against the name the reference holds
validate_forward_ref(value, hint) == ClassName(value) = hint.args[1].o

validate_value_hint(value, hint) ==
  IF hint.o = "ForwardRef" THEN validate_forward_ref(value, hint)
  ELSE IF hint.o = "Union" THEN validate_union(value, hint)
  ELSE IF ~hint.g THEN validate_simple_type(value, hint)
  ELSE validate_with_origin(value, hint)

(***************************************************************************)
(* constants.py: the feature flags and the presets                         *)
(***************************************************************************)
Features == {"EQ", "REPR", "ORDER", "HASH", "SLOTS", "FROZEN", "PRIVATE",
             "VALIDATION", "LOSSY_AUTOCAST"}
DEFAULT == {"EQ", "REPR", "ORDER"}
IMMUTABLE == DEFAULT \cup {"HASH", "SLOTS", "FROZEN"}

\* c.MISSING, and a default that is set
MISSING == [has |-> FALSE, v |-> NoneV]
Present(v) == [has |-> TRUE, v |-> v]

\* an attribute name: us leading underscores before base
N(base) == [us |-> 0, base |-> base]

(***************************************************************************)
(* _fields.py                                                              *)
(***************************************************************************)
Field(name, hint, default, default_factory) ==
  [name |-> name, hint |-> hint, default |-> default, default_factory |-> default_factory]

NoField == Field(N(""), NoneT, MISSING, "")

\* TRUE when the check passes, FALSE when it raises ValueError
_validate_field_default(default_value) ==
  default_value.k \notin {"list", "set", "bytearray"} \cup DictKinds

\* field(default=..., default_factory=...); a factory is named by the class it calls
field(default, default_factory) ==
  IF default.has /\ default_factory # ""
  THEN [ok |-> FALSE, f |-> NoField, exc |-> "ValueError", msg |-> "both"]
  ELSE IF default.has /\ ~_validate_field_default(default.v)
  THEN [ok |-> FALSE, f |-> NoField, exc |-> "ValueError", msg |-> "mutable"]
  ELSE [ok |-> TRUE, f |-> Field(N(""), NoneT, default, default_factory),
        exc |-> "", msg |-> ""]

(***************************************************************************)
(* A class statement.  Each annotated name is declared                     *)
(*   "none"   with the annotation only,                                    *)
(*   "bare"   with a literal:            name: hint = v                    *)
(*   "field"  with the marker:           name: hint = field(default=...,   *)
(*                                                  default_factory=...)   *)
(* Evaluating the body calls field() for every marker, in order; the       *)
(* resulting class attributes are attrs.                                   *)
(***************************************************************************)
Decl(name, hint, kind, default, default_factory) ==
  [name |-> name, hint |-> hint, kind |-> kind, default |-> default,
   default_factory |-> default_factory]

NoAttr == [kind |-> "absent", v |-> NoneV, f |-> NoField]

DeclAttr(d) ==
  CASE d.kind = "bare" -> [kind |-> "value", v |-> d.default.v, f |-> NoField]
    [] d.kind = "field" ->
         [kind |-> "Field", v |-> NoneV, f |-> field(d.default, d.default_factory).f]
    [] OTHER -> NoAttr

ClassBody(decls) ==
  LET bad == {i \in 1..Len(decls) :
                decls[i].kind = "field"
                /\ ~field(decls[i].default, decls[i].default_factory).ok}
  IN IF bad # {}
     THEN [ok |-> FALSE, attrs |-> <<>>, exc |-> "ValueError",
           msg |-> LET i == CHOOSE i \in bad : \A j \in bad : i <= j
                   IN field(decls[i].default, decls[i].default_factory).msg]
     ELSE [ok |-> TRUE, attrs |-> [i \in 1..Len(decls) |-> DeclAttr(decls[i])],
           exc |-> "", msg |-> ""]

(***************************************************************************)
(* core.py                                                                 *)
(***************************************************************************)
\* the class has no base with SLOTS; with SLOTS every annotated name leaves
\* attrs (into _field_defaults) and becomes a slot
_prepare_slots_for_class(attrs, features) ==
  IF "SLOTS" \notin features THEN [attrs |-> attrs, slots |-> FALSE]
  ELSE [attrs |-> [i \in 1..Len(attrs) |-> NoAttr], slots |-> Len(attrs) > 0]

(***************************************************************************)
(* _hooks.py                                                               *)
(***************************************************************************)
\* getattr(cls, name, c.MISSING): a slot name answers with its member descriptor
ClassGetattr(attrs, slots, decls, i) ==
  IF slots THEN [kind |-> "value", v |-> DescV(decls[i].name.base), f |-> NoField]
  ELSE attrs[i]

RECURSIVE set_fields_loop(_, _, _, _)
set_fields_loop(attrs, slots, decls, i) ==
  IF i > Len(decls) THEN [ok |-> TRUE, fields |-> <<>>, exc |-> "", msg |-> ""]
  ELSE LET attr == ClassGetattr(attrs, slots, decls, i)
           r == IF attr.kind = "Field"
                THEN [ok |-> TRUE, f |-> attr.f, exc |-> "", msg |-> ""]
                ELSE field(IF attr.kind = "value" THEN Present(attr.v) ELSE MISSING, "")
       IN IF ~r.ok THEN [ok |-> FALSE, fields |-> <<>>, exc |-> r.exc, msg |-> r.msg]
          ELSE LET rest == set_fields_loop(attrs, slots, decls, i + 1)
                   f == [r.f EXCEPT !.name = decls[i].name, !.hint = decls[i].hint]
               IN IF rest.ok THEN [rest EXCEPT !.fields = <<f>> \o rest.fields]
                  ELSE rest

set_fields(attrs, slots, decls) == set_fields_loop(attrs, slots, decls, 1)

\* the attribute hooks the class ends up with: every assignment to
\* cls.__setattr__ replaces the one before it
process_cls_features(features) ==
  LET s0 == "object.__setattr__"
      s1 == IF "FROZEN" \in features THEN "frozen_setattr" ELSE s0
      s2 == IF "PRIVATE" \in features THEN "privates_setattr" ELSE s1
      s3 == IF "VALIDATION" \in features THEN "validated_setattr" ELSE s2
      s4 == IF "LOSSY_AUTOCAST" \in features THEN "lossy_autocast_setattr" ELSE s3
      s5 == IF {"VALIDATION", "PRIVATE"} \subseteq features
            THEN "private_validated_setattr" ELSE s4
  IN [setattr |-> s5,
      delattr |-> IF "FROZEN" \in features THEN "frozen_setattr"
                  ELSE "object.__delattr__",
      getattr |-> IF "PRIVATE" \in features THEN "privates_getattr"
                  ELSE "object.__getattribute__"]

(***************************************************************************)
(* Instances.  A slot holds a value and the identity of the object it      *)
(* refers to: id > 0 for a mutable container, 0 for an immutable value.    *)
(***************************************************************************)
Slot(v, id) == [set |-> TRUE, v |-> v, id |-> id]
Unset == [set |-> FALSE, v |-> NoneV, id |-> 0]

IsContainer(v) == v.k \in {"list", "dict", "set", "bytearray"}

\* the identity of a newly allocated object
NewId(used) == CHOOSE i \in 1..(Cardinality(used) + 1) :
                  i \notin used /\ \A j \in 1..(i - 1) : j \in used

IdFor(v, used) == IF IsContainer(v) THEN NewId(used) ELSE 0

\* default_factory(): the factories of the model are the classes list and dict
CallFactory(default_factory) ==
  IF default_factory = "dict" THEN DictV(<<>>) ELSE ListV(<<>>)

\* the loop of init_obj over self.__fields__.values(); kwargs[i] is the keyword
\* argument given for the i-th field, or MISSING
RECURSIVE init_obj_loop(_, _, _, _)
init_obj_loop(fields, kwargs, i, used) ==
  IF i > Len(fields) THEN [slots |-> <<>>, missing |-> <<>>, called |-> <<>>]
  ELSE LET f == fields[i]
           here ==
             IF kwargs[i].has
             THEN [slot |-> Slot(kwargs[i].v, IdFor(kwargs[i].v, used)),
                   missing |-> <<>>, called |-> <<>>]
             ELSE IF f.default.has
             THEN [slot |-> Slot(f.default.v, 0), missing |-> <<>>, called |-> <<>>]
             ELSE IF f.default_factory # ""
             THEN [slot |-> Slot(CallFactory(f.default_factory), NewId(used)),
                   missing |-> <<>>, called |-> <<f.name>>]
             ELSE [slot |-> Unset, missing |-> <<f.name>>, called |-> <<>>]
           rest == init_obj_loop(fields, kwargs, i + 1, used \cup {here.slot.id})
       IN [slots |-> <<here.slot>> \o rest.slots,
           missing |-> here.missing \o rest.missing,
           called |-> here.called \o rest.called]

\* exc = "TypeError" when the missing-arguments error is raised
init_obj(fields, kwargs, used) ==
  LET r == init_obj_loop(fields, kwargs, 1, used)
  IN [slots |-> r.slots, missing |-> r.missing, called |-> r.called,
      exc |-> IF r.missing # <<>> THEN "TypeError" ELSE ""]

\* validate_fields: the names of the failing fields, in field order
RECURSIVE validate_fields_loop(_, _, _)
RECURSIVE validate_fields_loop_first_failure(_, _, _)
\* a loop that raises at the first field that fails
validate_fields_loop_first_failure(fields, slots, i) ==
  IF i > Len(fields) THEN <<>>
  ELSE IF validate_value_hint(slots[i].v, fields[i].hint)
  THEN validate_fields_loop_first_failure(fields, slots, i + 1)
  ELSE <<fields[i].name>>

validate_fields_loop(fields, slots, i) ==
  IF i > Len(fields) THEN <<>>
  ELSE (IF validate_value_hint(slots[i].v, fields[i].hint) THEN <<>>
        ELSE <<fields[i].name>>)
         \o validate_fields_loop(fields, slots, i + 1)

validate_fields(fields, slots) ==
  LET errors == validate_fields_loop(fields, slots, 1)
  IN [errors |-> errors, exc |-> IF errors # <<>> THEN "ValidationError" ELSE ""]

\* cast_fields: a TypeError of a field is collected, any other exception
\* leaves the loop
RECURSIVE cast_fields_loop(_, _, _, _)
RECURSIVE cast_fields_step(_, _, _, _, _)

\* the body of the loop for field i, r being the outcome of cast_value
cast_fields_step(fields, slots, i, used, r) ==
  IF r.ok
  THEN LET id == IF r.same THEN slots[i].id ELSE IdFor(r.v, used)
       IN cast_fields_loop(fields, [slots EXCEPT ![i] = Slot(r.v, id)],
                           i + 1, used \cup {id})
  ELSE IF r.exc = "TypeError"
  THEN LET rest == cast_fields_loop(fields, slots, i + 1, used)
       IN [rest EXCEPT !.errors = <<fields[i].name>> \o rest.errors]
  ELSE [slots |-> slots, errors |-> <<>>, exc |-> r.exc]

cast_fields_loop(fields, slots, i, used) ==
  IF i > Len(fields) THEN [slots |-> slots, errors |-> <<>>, exc |-> ""]
  ELSE cast_fields_step(fields, slots, i, used, cast_value(slots[i].v, fields[i].hint))

\* "if errors: raise CastingError(errors)"
RaiseCastingError(r) ==
  IF r.exc = "" /\ r.errors # <<>> THEN [r EXCEPT !.exc = "CastingError"] ELSE r

cast_fields(fields, slots, used) ==
  RaiseCastingError(cast_fields_loop(fields, slots, 1, used))

\* _hooks.process_obj_features
process_obj_features(features, fields, slots, used) ==
  IF "VALIDATION" \in features /\ validate_fields(fields, slots).exc # ""
  THEN [slots |-> slots, errors |-> validate_fields(fields, slots).errors,
        exc |-> validate_fields(fields, slots).exc]
  ELSE IF "LOSSY_AUTOCAST" \in features THEN cast_fields(fields, slots, used)
  ELSE [slots |-> slots, errors |-> <<>>, exc |-> ""]

(***************************************************************************)
(* _setattrs.py, _delattrs.py                                              *)
(***************************************************************************)
InFields(fields, name) == \E i \in 1..Len(fields) : fields[i].name = name
FieldIndex(fields, name) == CHOOSE i \in 1..Len(fields) : fields[i].name = name

\* str.endswith("private_field") on the names of the model
EndsWithPrivateField(name) == name.base \in {"private_field", "my_private_field"}

\* a retrieval that hands an underscore-prefixed name on as written
private_name_retrieval_as_written(fields, name) ==
  IF name.us > 0 /\ ~InFields(fields, name) /\ ~InFields(fields, [name EXCEPT !.us = @ - 1])
  THEN [ok |-> FALSE, name |-> name, msg |-> "not found"]
  ELSE [ok |-> TRUE, name |-> name, msg |-> ""]

private_name_retrieval(fields, name) ==
  LET is_private == (name.us = 0 /\ name.base = "secret") \/ EndsWithPrivateField(name)
      actual_name == [name EXCEPT !.us = @ - 1]
  IN IF InFields(fields, name) /\ name.us > 0 THEN [ok |-> TRUE, name |-> name, msg |-> ""]
     ELSE IF InFields(fields, name) /\ is_private
     THEN [ok |-> FALSE, name |-> name, msg |-> "privates only"]
     ELSE IF name.us > 0
     THEN (IF InFields(fields, actual_name)
           THEN [ok |-> TRUE, name |-> actual_name, msg |-> ""]
           ELSE [ok |-> FALSE, name |-> name, msg |-> "not found"])
     ELSE [ok |-> TRUE, name |-> name, msg |-> ""]

\* a handler of _HANDLERS: the (name, value) it returns or the exception it raises
Returned(name, value) == [exc |-> "", msg |-> "", name |-> name, value |-> value]
Raised(exc, msg, name, value) == [exc |-> exc, msg |-> msg, name |-> name, value |-> value]

\* a guard that lets the write through
frozen_handler_permissive(cls, fields, name, value) == Returned(name, value)

frozen_handler(cls, fields, name, value) == Raised("Exception", cls, name, value)

\* a verification stage that reports nothing
validation_handler_unchecked(cls, fields, name, value) == Returned(name, value)

validation_handler(cls, fields, name, value) ==
  IF ~InFields(fields, name) THEN Raised("KeyError", "", name, value)
  ELSE IF validate_value_hint(value, fields[FieldIndex(fields, name)].hint)
  THEN Returned(name, value)
  ELSE Raised("TypeError", "expected type", name, value)

\* "return name, casted_value", or the exception of cast_value
ReturnCasted(name, value, r) ==
  IF r.ok THEN Returned(name, r.v) ELSE Raised(r.exc, r.msg, name, value)

lossy_autocast_handler(cls, fields, name, value) ==
  IF ~InFields(fields, name) THEN Raised("KeyError", "", name, value)
  ELSE ReturnCasted(name, value, cast_value(value, fields[FieldIndex(fields, name)].hint))

\* the handlers with verification ahead of coercion
_HANDLERS_validation_first == <<"FROZEN", "VALIDATION", "LOSSY_AUTOCAST">>

\* _HANDLERS, in the order of the dict
_HANDLERS == <<"FROZEN", "LOSSY_AUTOCAST", "VALIDATION">>

ApplyHandler(feature, cls, fields, name, value) ==
  CASE feature = "FROZEN" -> frozen_handler(cls, fields, name, value)
    [] feature = "LOSSY_AUTOCAST" -> lossy_autocast_handler(cls, fields, name, value)
    [] OTHER -> validation_handler(cls, fields, name, value)

\* the loop over _HANDLERS; stages lists the handlers that were called
RECURSIVE RunHandlers(_, _, _, _, _, _, _)
RECURSIVE AfterHandler(_, _, _, _, _, _)

\* "name, value = func(self, name, value)": r is what handler i returned or raised
AfterHandler(handlers, i, features, cls, fields, r) ==
  IF r.exc # "" THEN [res |-> r, stages |-> <<handlers[i]>>]
  ELSE LET rest == RunHandlers(handlers, i + 1, features, cls, fields, r.name, r.value)
       IN [rest EXCEPT !.stages = <<handlers[i]>> \o rest.stages]

RunHandlers(handlers, i, features, cls, fields, name, value) ==
  IF i > Len(handlers) THEN [res |-> Returned(name, value), stages |-> <<>>]
  ELSE IF handlers[i] \notin features
  THEN RunHandlers(handlers, i + 1, features, cls, fields, name, value)
  ELSE AfterHandler(handlers, i, features, cls, fields,
                    ApplyHandler(handlers[i], cls, fields, name, value))

\* the stages a write went through: name retrieval, then the handlers
Staged(pre, h) == [h EXCEPT !.stages = pre \o h.stages]

\* setattr_processor up to, and without, the final object.__setattr__
setattr_processor(features, cls, fields, name, value) ==
  LET nr == IF "PRIVATE" \in features THEN private_name_retrieval(fields, name)
            ELSE [ok |-> TRUE, name |-> name, msg |-> ""]
      pre == IF "PRIVATE" \in features THEN <<"PRIVATE">> ELSE <<>>
  IN IF ~nr.ok
     THEN [res |-> Raised("Exception", nr.msg, name, value), stages |-> pre]
     ELSE Staged(pre, RunHandlers(_HANDLERS, 1, features, cls, fields, nr.name, value))

frozen_delattr(cls, name) == Raised("AttributeError", cls, name, NoneV)

(***************************************************************************)
(* _getattrs.py                                                            *)
(***************************************************************************)
\* object.__getattribute__(self, name) for an instance of class k: the value
\* the instance holds, else the class attribute of that name
object_getattribute(k, slots, name) ==
  IF ~InFields(k.fields, name) THEN Raise("AttributeError", "no attribute")
  ELSE IF slots[FieldIndex(k.fields, name)].set
  THEN Ok(slots[FieldIndex(k.fields, name)].v, TRUE)
  ELSE IF k.slots THEN Raise("AttributeError", "no attribute")
  ELSE IF k.body.decls[FieldIndex(k.fields, name)].kind = "bare"
  THEN Ok(k.body.decls[FieldIndex(k.fields, name)].default.v, TRUE)
  ELSE IF k.body.decls[FieldIndex(k.fields, name)].kind = "field"
  THEN Ok(ObjV("Field"), TRUE)
  ELSE Raise("AttributeError", "no attribute")

\* __getattr__ of a PRIVATE class
privates_getattr(k, slots, name) ==
  IF name.us > 0 /\ InFields(k.fields, [name EXCEPT !.us = @ - 1])
  THEN object_getattribute(k, slots, [name EXCEPT !.us = @ - 1])
  ELSE object_getattribute(k, slots, name)

\* obj.name: the normal lookup, and __getattr__ when that raised AttributeError
Getattr(k, slots, name) ==
  IF object_getattribute(k, slots, name).ok \/ k.getattr # "privates_getattr"
  THEN object_getattribute(k, slots, name)
  ELSE privates_getattr(k, slots, name)

(***************************************************************************)
(* Classes with bases.  A class attribute a body does not assign is found  *)
(* on the nearest base that holds it; Classno itself holds the empty key   *)
(* tuples and the DEFAULT features.                                        *)
(***************************************************************************)
KeyAttrs == {"__eq_keys__", "__hash_keys__", "__order_keys__"}

\* the feature whose handler fills the key tuple
KeyFeature(attr) ==
  CASE attr = "__eq_keys__" -> "EQ"
    [] attr = "__hash_keys__" -> "HASH"
    [] OTHER -> "ORDER"

Assigned(v) == [has |-> TRUE, v |-> v]
NotAssigned == [has |-> FALSE, v |-> <<>>]
NoKeys == [a \in KeyAttrs |-> NotAssigned]

\* a class statement: base is the position of the base among the declared
\* types (0: Classno), own the names the body annotates, features and keys
\* what the body assigns to __features__ and to the key attributes
TypeDecl(name, base, own, features, keys) ==
  [name |-> name, base |-> base, own |-> own, features |-> features, keys |-> keys]

\* getattr(cls, attr) for a key attribute, from the class at position idx
RECURSIVE ClassKeys(_, _, _)
ClassKeys(ts, idx, attr) ==
  IF idx = 0 THEN <<>>
  ELSE IF ts[idx].dict[attr].has THEN ts[idx].dict[attr].v
  ELSE ClassKeys(ts, ts[idx].base, attr)

\* cls.__features__
ClassFeatures(ts, d) ==
  IF d.features.has THEN d.features.v
  ELSE IF d.base = 0 THEN DEFAULT
  ELSE ts[d.base].features

\* the names of typing.get_type_hints(cls): the annotations of the bases
\* first, then the names the body adds
TypeHintNames(ts, d) ==
  LET inherited == IF d.base = 0 THEN <<>> ELSE ts[d.base].fields
  IN inherited \o SelectSeq(d.own, LAMBDA n : \A i \in 1..Len(inherited) : inherited[i] # n)

\* set_keys(cls, keys_attr) on the class __dict__ under construction
set_keys(ts, d, dict, fields, keys_attr) ==
  LET attr == IF dict[keys_attr].has THEN dict[keys_attr].v
              ELSE ClassKeys(ts, d.base, keys_attr)
  IN IF attr = <<>> THEN [dict EXCEPT ![keys_attr] = Assigned(fields)] ELSE dict

\* the set_keys calls of process_cls_features, one per enabled feature
process_cls_features_keys(ts, d, features, fields) ==
  [a \in KeyAttrs |->
     IF KeyFeature(a) \in features THEN set_keys(ts, d, d.keys, fields, a)[a]
     ELSE d.keys[a]]

\* MetaClassno.__new__ for a class statement with a base
MetaClassno_new_type(ts, d) ==
  [name |-> d.name, base |-> d.base, decl |-> d,
   features |-> ClassFeatures(ts, d),
   fields |-> TypeHintNames(ts, d),
   dict |-> process_cls_features_keys(ts, d, ClassFeatures(ts, d), TypeHintNames(ts, d))]

(***************************************************************************)
(* _dunders.py.  An operand of a comparison is an instance of the declared *)
(* type at position cls, holding its attribute values in field order, or   *)
(* an object that is no instance of a declared type.                       *)
(***************************************************************************)
Instance(cls, vals) == [inst |-> TRUE, cls |-> cls, vals |-> vals, v |-> NoneV]
NonRecord(v) == [inst |-> FALSE, cls |-> 0, vals |-> <<>>, v |-> v]

NotImplementedV == [k |-> "NotImplementedType", n |-> 0, s |-> <<>>, e |-> <<>>]

\* the characters of the model in code point order (without the double quote, the backslash and the backtick)
Alphabet ==
  <<" ", "!", "#", "$", "%", "&", "'", "(", ")", "*", "+", ",", "-",
    ".", "/", "0", "1", "2", "3", "4", "5", "6", "7", "8", "9", ":", ";",
    "<", "=", ">", "?", "@", "A", "B", "C", "D", "E", "F", "G", "H", "I",
    "J", "K", "L", "M", "N", "O", "P", "Q", "R", "S", "T", "U", "V", "W",
    "X", "Y", "Z", "[", "]", "^", "_", "a", "b", "c", "d", "e",
    "f", "g", "h", "i", "j", "k", "l", "m", "n", "o", "p", "q", "r", "s",
    "t", "u", "v", "w", "x", "y", "z", "{", "|", "}", "~">>
CharRank(c) == CHOOSE i \in 1..Len(Alphabet) : Alphabet[i] = c

RECURSIVE StrLess(_, _)
StrLess(xs, ys) ==
  IF ys = <<>> THEN FALSE
  ELSE IF xs = <<>> THEN TRUE
  ELSE IF Head(xs) = Head(ys) THEN StrLess(Tail(xs), Tail(ys))
  ELSE CharRank(Head(xs)) < CharRank(Head(ys))

\* x < y: "lt", "no" or "error" (TypeError: '<' not supported)
RECURSIVE Less(_, _)
RECURSIVE SeqLess(_, _, _)
SeqLess(xs, ys, i) ==
  IF i > Len(xs) \/ i > Len(ys) THEN (IF Len(xs) < Len(ys) THEN "lt" ELSE "no")
  ELSE IF PyEq(xs[i], ys[i]) THEN SeqLess(xs, ys, i + 1)
  ELSE Less(xs[i], ys[i])

Less(x, y) ==
  LET num == {"int", "bool", "float"}
      val(z) == IF z.k = "float" THEN z.n ELSE 10 * z.n
      sets == {"set", "frozenset"}
  IN IF x.k \in num /\ y.k \in num THEN (IF val(x) < val(y) THEN "lt" ELSE "no")
     ELSE IF x.k = "str" /\ y.k = "str" THEN (IF StrLess(x.s, y.s) THEN "lt" ELSE "no")
     ELSE IF x.k = y.k /\ x.k \in {"list", "tuple"} THEN SeqLess(x.e, y.e, 1)
     ELSE IF x.k \in sets /\ y.k \in sets
     THEN (IF Len(x.e) < Len(y.e)
              /\ \A i \in 1..Len(x.e) : \E j \in 1..Len(y.e) : PyEq(x.e[i], y.e[j])
           THEN "lt" ELSE "no")
     ELSE "error"

\* operator.eq, lt, le, gt, ge on two values
Operator(op, x, y) ==
  CASE op = "eq" -> Ok(BoolV(PyEq(x, y)), FALSE)
    [] op = "lt" -> IF Less(x, y) = "error" THEN Raise("TypeError", "<")
                    ELSE Ok(BoolV(Less(x, y) = "lt"), FALSE)
    [] op = "gt" -> IF Less(y, x) = "error" THEN Raise("TypeError", ">")
                    ELSE Ok(BoolV(Less(y, x) = "lt"), FALSE)
    [] op = "le" -> IF Less(x, y) = "error" THEN Raise("TypeError", "<=")
                    ELSE Ok(BoolV(Less(x, y) = "lt" \/ PyEq(x, y)), FALSE)
    [] OTHER -> IF Less(y, x) = "error" THEN Raise("TypeError", ">=")
                ELSE Ok(BoolV(Less(y, x) = "lt" \/ PyEq(x, y)), FALSE)

\* getattr(self, k) for the names of a key tuple, as a tuple; a name that is
\* no attribute of the instance raises AttributeError
KeyValues(ts, self, keys) ==
  LET fields == ts[self.cls].fields
      at(k) == CHOOSE i \in 1..Len(fields) : fields[i] = k
  IN IF \E j \in 1..Len(keys) : \A i \in 1..Len(fields) : fields[i] # keys[j]
     THEN Raise("AttributeError", "no attribute")
     ELSE Ok(TupleV([j \in 1..Len(keys) |-> self.vals[at(keys[j])]]), FALSE)

_eq_value(ts, self) == KeyValues(ts, self, ClassKeys(ts, self.cls, "__eq_keys__"))

_order_value(ts, self) == KeyValues(ts, self, ClassKeys(ts, self.cls, "__order_keys__"))

\* getattr(self, key)() for the name of one of the two methods above
KeyMethod(ts, self, key) ==
  IF key = "_eq_value" THEN _eq_value(ts, self) ELSE _order_value(ts, self)

\* issubclass(type at position idx, type at position of)
RECURSIVE IsSubclass(_, _, _)
IsSubclass(ts, idx, of) ==
  idx # 0 /\ (idx = of \/ IsSubclass(ts, ts[idx].base, of))

\* op(self_key, other_key) once both key tuples are there
CompareKeys(op, self_key, other_key) ==
  IF ~self_key.ok THEN [r |-> self_key, read |-> TRUE]
  ELSE IF ~other_key.ok THEN [r |-> other_key, read |-> TRUE]
  ELSE [r |-> Operator(op, self_key.v, other_key.v), read |-> TRUE]

\* a comparison that accepts an instance of a subclass as the other operand
_cmp_factory_isinstance(ts, self, other, op, key) ==
  IF ~(other.inst /\ IsSubclass(ts, other.cls, self.cls))
  THEN [r |-> Ok(NotImplementedV, FALSE), read |-> FALSE]
  ELSE CompareKeys(op, KeyMethod(ts, self, key), KeyMethod(ts, other, key))

\* read: the key tuples of the operands were fetched
_cmp_factory(ts, self, other, op, key) ==
  IF ~(other.inst /\ other.cls = self.cls)
  THEN [r |-> Ok(NotImplementedV, FALSE), read |-> FALSE]
  ELSE CompareKeys(op, KeyMethod(ts, self, key), KeyMethod(ts, other, key))

__eq__(ts, self, other) == _cmp_factory(ts, self, other, "eq", "_eq_value")

\* __lt__, __le__, __gt__, __ge__
OrderDunder(ts, self, other, op) == _cmp_factory(ts, self, other, op, "_order_value")

\* sorted(items) on (key, value) pairs: the keys of a dict differ pairwise, so
\* the order is the order of the keys, and keys that "<" cannot compare raise
RECURSIVE SortItems(_)
SortItems(pairs) ==
  IF pairs = <<>> THEN <<>>
  ELSE LET m == CHOOSE i \in 1..Len(pairs) :
                  \A j \in 1..Len(pairs) : j # i => Less(pairs[i].e[1], pairs[j].e[1]) = "lt"
       IN <<pairs[m]>> \o SortItems([j \in 1..(Len(pairs) - 1) |->
                                       IF j < m THEN pairs[j] ELSE pairs[j + 1]])

Sortable(pairs) ==
  \A i, j \in 1..Len(pairs) : i # j => Less(pairs[i].e[1], pairs[j].e[1]) # "error"

\* make_hashable of _hash_value
RECURSIVE make_hashable(_)
RECURSIVE HashableEach(_, _)
RECURSIVE HashableItems(_, _)

\* tuple(make_hashable(item) for item in obj)
HashableEach(es, i) ==
  IF i > Len(es) THEN [ok |-> TRUE, vs |-> <<>>]
  ELSE IF ~make_hashable(es[i]).ok THEN [ok |-> FALSE, vs |-> <<>>]
  ELSE IF ~HashableEach(es, i + 1).ok THEN [ok |-> FALSE, vs |-> <<>>]
  ELSE [ok |-> TRUE, vs |-> <<make_hashable(es[i]).v>> \o HashableEach(es, i + 1).vs]

\* items.append((key, make_hashable(value)))
HashableItems(pairs, i) ==
  IF i > Len(pairs) THEN [ok |-> TRUE, vs |-> <<>>]
  ELSE IF ~make_hashable(pairs[i].e[2]).ok THEN [ok |-> FALSE, vs |-> <<>>]
  ELSE IF ~HashableItems(pairs, i + 1).ok THEN [ok |-> FALSE, vs |-> <<>>]
  ELSE [ok |-> TRUE,
        vs |-> <<TupleV(<<pairs[i].e[1], make_hashable(pairs[i].e[2]).v>>)>>
                 \o HashableItems(pairs, i + 1).vs]

make_hashable(obj) ==
  IF obj.k \in DictKinds
  THEN (IF ~HashableItems(obj.e, 1).ok \/ ~Sortable(obj.e) THEN Raise("TypeError", "<")
        ELSE Ok(TupleV(SortItems(HashableItems(obj.e, 1).vs)), FALSE))
  ELSE IF obj.k \in {"list", "set"}
  THEN (IF HashableEach(obj.e, 1).ok THEN Ok(TupleV(HashableEach(obj.e, 1).vs), FALSE)
        ELSE Raise("TypeError", "<"))
  ELSE IF obj.k \in {"tuple", "frozenset", "deque", "bytearray"}
  THEN (IF HashableEach(obj.e, 1).ok THEN Ok(TupleV(HashableEach(obj.e, 1).vs), FALSE)
        ELSE Ok(StrV(StrChars(obj)), FALSE))
  ELSE Ok(obj, TRUE)

_hash_value(ts, self) ==
  LET keys == KeyValues(ts, self, ClassKeys(ts, self.cls, "__hash_keys__"))
  IN IF ~keys.ok THEN keys
     ELSE IF HashableEach(keys.v.e, 1).ok
     THEN Ok(TupleV(HashableEach(keys.v.e, 1).vs), FALSE)
     ELSE Raise("TypeError", "<")

\* hash(self._hash_value()): the hash of the tuple stands for the tuple, equal
\* tuples hash equal and tuples that differ are taken to hash apart
__hash__(ts, self) == _hash_value(ts, self)

(***************************************************************************)
(* The state                                                               *)
(*   klass  the declared type: field table, flags, installed hooks         *)
(*   objs   the instances construction has returned                        *)
(*   last   the most recent call and its outcome                           *)
(*   cin, cout   argument and outcome of a direct call of cast_value       *)
(*   types  the declared types of a class hierarchy, in declaration order  *)
(*   cmp    the operands and the outcome of a comparison or hash call      *)
(*   heap   the Field objects the field tables of the types refer to       *)
(***************************************************************************)
VARIABLES klass, objs, last, cin, cout, types, cmp, heap
vars == <<klass, objs, last, cin, cout, types, cmp, heap>>

NoBody == [name |-> "", decls |-> <<>>]

NoClass ==
  [declared |-> FALSE, name |-> "", body |-> NoBody, features |-> {}, fields |-> <<>>,
   slots |-> FALSE, setattr |-> "", delattr |-> "", getattr |-> ""]

NoLast ==
  [op |-> "none", exc |-> "", msg |-> "", body |-> NoBody, features |-> {},
   kwargs |-> <<>>, missing |-> <<>>, called |-> <<>>, errors |-> <<>>,
   slots |-> <<>>, target |-> 0, name |-> N(""), value |-> NoneV, stages |-> <<>>,
   resolved |-> N(""), final |-> NoneV]

NoCall == [v |-> NoneV, hint |-> NoneT]
NoResult == [done |-> FALSE, op |-> "", r |-> Raise("", ""), read |-> FALSE]
NoHashes == [done |-> FALSE, self |-> Raise("", ""), other |-> Raise("", "")]
NoCompare ==
  [self |-> NonRecord(NoneV), other |-> NonRecord(NoneV),
   eq |-> NoResult, ord |-> NoResult, hash |-> NoHashes]
NoOutcome ==
  [done |-> FALSE, r |-> Raise("", ""),
   again |-> [done |-> FALSE, r |-> Raise("", "")],
   valid |-> [done |-> FALSE, ok |-> FALSE]]

\* MetaClassno.__new__, after the class body was evaluated
MetaClassno_new(body, features) ==
  LET b == ClassBody(body.decls)
      p == _prepare_slots_for_class(b.attrs, features)
      f == set_fields(p.attrs, p.slots, body.decls)
      h == process_cls_features(features)
  IN IF ~b.ok THEN [ok |-> FALSE, klass |-> NoClass, exc |-> b.exc, msg |-> b.msg]
     ELSE IF ~f.ok THEN [ok |-> FALSE, klass |-> NoClass, exc |-> f.exc, msg |-> f.msg]
     ELSE [ok |-> TRUE, exc |-> "", msg |-> "",
           klass |-> [declared |-> TRUE, name |-> body.name, body |-> body,
                      features |-> features,
                      fields |-> f.fields, slots |-> p.slots, setattr |-> h.setattr,
                      delattr |-> h.delattr, getattr |-> h.getattr]]

(***************************************************************************)
(* Inputs                                                                  *)
(***************************************************************************)
S(chars) == StrV(chars)
Text42 == S(<<"4", "2">>)
TextTest == S(<<"t", "e", "s", "t">>)
List123 == ListV(<<IntV(1), IntV(2), IntV(3)>>)

MutableDefaults == {ListV(<<>>), DictV(<<>>), SetV(<<>>), ByteArrayV(<<>>)}

PointDecls ==
  <<Decl(N("x"), IntT, "none", MISSING, ""),
    Decl(N("y"), IntT, "bare", Present(IntV(3)), "")>>

TestClassDecls ==
  <<Decl(N("count"), IntT, "none", MISSING, ""),
    Decl(N("items"), ListOf(StrT), "field", MISSING, "list")>>

StatsDecls ==
  <<Decl(N("ratio"), FloatT, "none", MISSING, ""),
    Decl(N("mapping"), DictOf(StrT, IntT), "none", MISSING, "")>>

PrivateUserDecls ==
  <<Decl(N("name"), StrT, "none", MISSING, ""),
    Decl(N("secret"), StrT, "none", MISSING, "")>>

\* a class that declares a field under a name with a leading underscore
PrivateBaseDecls ==
  <<Decl(N("public_field"), StrT, "none", MISSING, ""),
    Decl([us |-> 1, base |-> "protected_field"], StrT, "none", MISSING, "")>>

Bodies ==
  {[name |-> "Point", decls |-> PointDecls],
   [name |-> "PrivateUser", decls |-> PrivateUserDecls],
   [name |-> "PrivateBase", decls |-> PrivateBaseDecls],
   [name |-> "Stats", decls |-> StatsDecls],
   [name |-> "TestClass", decls |-> TestClassDecls],
   [name |-> "Mixed",
    decls |-> <<Decl(N("data"), UnionOf(<<ListOf(IntT), StrT>>), "none", MISSING, "")>>],
   [name |-> "Both",
    decls |-> <<Decl(N("a"), IntT, "field", Present(IntV(1)), "list")>>]}
  \cup {[name |-> "Tagged",
         decls |-> <<Decl(N("tags"), BareListT, kind, Present(v), "")>>] :
          kind \in {"bare", "field"}, v \in MutableDefaults}

FeatureSets ==
  (SUBSET {"SLOTS", "FROZEN", "PRIVATE", "VALIDATION", "LOSSY_AUTOCAST"})
    \cup {DEFAULT, IMMUTABLE}

\* the keyword values a caller passes for a field of the given hint
ArgsFor(hint) ==
  CASE hint = IntT -> {IntV(5), Text42}
    [] hint = StrT -> {TextTest, IntV(5)}
    [] hint = ListOf(StrT) -> {List123}
    [] hint = FloatT -> {FloatV(425), TextTest}
    [] hint = DictOf(StrT, IntT) -> {DictV(<<PairV(S(<<"a">>), IntV(1))>>), Text42}
    [] OTHER -> {Text42}

KwargsFor(fields) ==
  {kw \in [1..Len(fields) ->
             {MISSING} \cup {Present(v) : v \in UNION {ArgsFor(fields[i].hint) :
                                                         i \in 1..Len(fields)}}] :
     \A i \in 1..Len(fields) : kw[i].has => kw[i].v \in ArgsFor(fields[i].hint)}

WriteValues == {IntV(7), Text42, ListV(<<TextTest>>)}

WriteNames(fields) ==
  {fields[i].name : i \in 1..Len(fields)}
    \cup {[fields[i].name EXCEPT !.us = @ + 1] : i \in 1..Len(fields)}
    \cup {N("other"), [N("other") EXCEPT !.us = 1]}

UsedIds(os) == {os[i].slots[j].id : i \in 1..Len(os), j \in 1..Len(klass.fields)}

(***************************************************************************)
(* Actions                                                                 *)
(***************************************************************************)
\* a class statement: the body is evaluated and MetaClassno.__new__ runs; a
\* behaviour holds one class statement
Declare ==
  /\ ~klass.declared /\ last.op = "none"
  /\ \E body \in Bodies, features \in FeatureSets :
       LET r == MetaClassno_new(body, features)
       IN /\ klass' = r.klass
          /\ last' = [NoLast EXCEPT !.op = "declare", !.exc = r.exc, !.msg = r.msg,
                                    !.body = body, !.features = features]
  /\ UNCHANGED <<objs, cin, cout, types, cmp, heap>>

\* MetaClassno.__call__: init_obj, then process_obj_features; an exception
\* discards the instance
Construct(limit) ==
  /\ klass.declared
  /\ Len(objs) < limit
  /\ \E kwargs \in KwargsFor(klass.fields) :
     \E i \in {init_obj(klass.fields, kwargs, UsedIds(objs))} :
     \E p \in {process_obj_features(klass.features, klass.fields, i.slots,
                   UsedIds(objs) \cup {i.slots[j].id : j \in 1..Len(i.slots)})} :
       LET l == [NoLast EXCEPT !.op = "init", !.kwargs = kwargs, !.missing = i.missing,
                               !.called = i.called]
       IN IF i.exc # ""
          THEN /\ objs' = objs
               /\ last' = [l EXCEPT !.exc = i.exc, !.msg = klass.name, !.slots = i.slots]
          ELSE IF p.exc # ""
          THEN /\ objs' = objs
               /\ last' = [l EXCEPT !.exc = p.exc, !.errors = p.errors, !.slots = p.slots]
          ELSE /\ objs' = Append(objs, [slots |-> p.slots, born |-> p.slots])
               /\ last' = [l EXCEPT !.slots = p.slots, !.target = Len(objs) + 1]
  /\ UNCHANGED <<klass, cin, cout, types, cmp, heap>>

\* obj.name = value through setattr_processor.  The model keeps the declared
\* fields of an instance: a commit under another name reaches the instance
\* __dict__ (absent when the class has slots) and changes no field.
Write ==
  /\ \E t \in 1..Len(objs), name \in WriteNames(klass.fields), value \in WriteValues :
     \E r \in {setattr_processor(klass.features, klass.name, klass.fields, name, value)} :
       LET l == [NoLast EXCEPT !.op = "setattr", !.target = t, !.name = name,
                               !.value = value, !.stages = r.stages]
           j == FieldIndex(klass.fields, r.res.name)
       IN IF r.res.exc # ""
          THEN /\ objs' = objs
               /\ last' = [l EXCEPT !.exc = r.res.exc, !.msg = r.res.msg]
          ELSE IF InFields(klass.fields, r.res.name)
          THEN /\ objs' = [objs EXCEPT ![t].slots[j] =
                             Slot(r.res.value, IdFor(r.res.value, UsedIds(objs)))]
               /\ last' = [l EXCEPT !.stages = @ \o <<"commit">>,
                                    !.resolved = r.res.name, !.final = r.res.value]
          ELSE IF klass.slots
          THEN /\ objs' = objs
               /\ last' = [l EXCEPT !.exc = "AttributeError", !.msg = "no attribute",
                                    !.stages = @ \o <<"commit">>]
          ELSE /\ objs' = objs
               /\ last' = [l EXCEPT !.stages = @ \o <<"commit">>,
                                    !.resolved = r.res.name, !.final = r.res.value]
  /\ UNCHANGED <<klass, cin, cout, types, cmp, heap>>

\* del obj.name, for the name of a declared field
Delete ==
  /\ \E t \in 1..Len(objs), name \in {klass.fields[i].name : i \in 1..Len(klass.fields)} :
       LET l == [NoLast EXCEPT !.op = "delattr", !.target = t, !.name = name]
           j == FieldIndex(klass.fields, name)
       IN IF "FROZEN" \in klass.features
          THEN /\ objs' = objs
               /\ last' = [l EXCEPT !.exc = frozen_delattr(klass.name, name).exc,
                                    !.msg = frozen_delattr(klass.name, name).msg]
          ELSE IF objs[t].slots[j].set
          THEN /\ objs' = [objs EXCEPT ![t].slots[j] = Unset]
               /\ last' = l
          ELSE /\ objs' = objs
               /\ last' = [l EXCEPT !.exc = "AttributeError", !.msg = "no attribute"]
  /\ UNCHANGED <<klass, cin, cout, types, cmp, heap>>

Init ==
  /\ klass = NoClass
  /\ objs = <<>>
  /\ last = NoLast
  /\ cin = NoCall
  /\ cout = NoOutcome
  /\ types = <<>>
  /\ cmp = NoCompare
  /\ heap = <<>>

\* the life of one instance: declaration, construction, writes and deletes
ConstructFirst == Construct(1)

Next == Declare \/ ConstructFirst \/ Write \/ Delete

Spec == Init /\ [][Next]_vars

\* several instances of one type; obj.field.append(...) mutates the list a
\* field refers to, through every reference to that list
MaxObjs == 2
MaxLen == 4

ConstructMore == Construct(MaxObjs)

AppendTo ==
  /\ \E t \in 1..Len(objs), j \in 1..Len(klass.fields) :
       LET slot == objs[t].slots[j]
           grown == ListV(Append(slot.v.e, TextTest))
       IN /\ slot.set /\ slot.v.k = "list" /\ slot.id > 0
          /\ Len(slot.v.e) < MaxLen
          /\ objs' = [i \in 1..Len(objs) |->
                        [objs[i] EXCEPT !.slots =
                           [jj \in 1..Len(klass.fields) |->
                              IF @[jj].set /\ @[jj].id = slot.id
                              THEN [@[jj] EXCEPT !.v = grown] ELSE @[jj]]]]
          /\ last' = [NoLast EXCEPT !.op = "append", !.target = t,
                                    !.name = klass.fields[j].name, !.value = TextTest]
  /\ UNCHANGED <<klass, cin, cout, types, cmp, heap>>

\* as_dict: getattr(self, f.name) for every field; the slots stand for the
\* objects the dictionary holds
as_dict(k, slots) ==
  IF \A i \in 1..Len(k.fields) : Getattr(k, slots, k.fields[i].name).ok
  THEN [ok |-> TRUE,
        slots |-> [i \in 1..Len(k.fields) |->
                     IF slots[i].set THEN slots[i]
                     ELSE Slot(Getattr(k, slots, k.fields[i].name).v, 0)]]
  ELSE [ok |-> FALSE, slots |-> slots]

\* copy.copy(obj): __copy__ calls type(self)(**self.as_dict()); init_obj
\* stores the objects of the dictionary, then process_obj_features runs
Copy ==
  /\ Len(objs) < MaxObjs
  /\ \E t \in 1..Len(objs) :
     \E d \in {as_dict(klass, objs[t].slots)} :
     \E p \in {process_obj_features(klass.features, klass.fields, d.slots, UsedIds(objs))} :
       LET l == [NoLast EXCEPT !.op = "copy", !.target = t]
       IN IF ~d.ok
          THEN /\ objs' = objs
               /\ last' = [l EXCEPT !.exc = "AttributeError"]
          ELSE IF p.exc # ""
          THEN /\ objs' = objs
               /\ last' = [l EXCEPT !.exc = p.exc, !.errors = p.errors, !.slots = p.slots]
          ELSE /\ objs' = Append(objs, [slots |-> p.slots, born |-> p.slots])
               /\ last' = [l EXCEPT !.slots = p.slots]
  /\ UNCHANGED <<klass, cin, cout, types, cmp, heap>>

NextShare == Declare \/ ConstructMore \/ AppendTo \/ Copy

SpecShare == Init /\ [][NextShare]_vars

\* direct calls of cast_value
MaxUnion == 2

S1 == S(<<"1">>)
SA == S(<<"a">>)

CastValues ==
  {NoneV, BoolV(TRUE), IntV(5), FloatV(425), Text42, S(<<"a", "b", "c">>),
   ListV(<<>>), ListV(<<S1>>), ListV(<<SA>>), ListV(<<NoneV, SA>>), List123,
   DictV(<<PairV(IntV(1), S1)>>), TupleV(<<IntV(1), IntV(2)>>),
   TupleV(<<>>), TupleV(<<IntV(1), SA>>), TupleV(<<S1, SA, SA>>),
   SetV(<<IntV(1), S1>>), FrozenSetV(<<IntV(2), IntV(1)>>), DequeV(<<S1, IntV(2)>>),
   CounterV(<<PairV(SA, IntV(1))>>), DictV(<<PairV(SA, IntV(1))>>),
   ObjV("Node"), ObjV("Leaf"), S(<<"N", "o", "d", "e">>),
   TupleV(<<S(<<"1", ".", "5">>)>>),
   DictV(<<PairV(TupleV(<<IntV(1), SA>>), IntV(1))>>)}

UnionMembers ==
  {IntT, StrT, FloatT, NoneT, BareListT, ListOf(IntT), ListOf(StrT),
   DictOf(StrT, IntT), ListOf(DictOf(StrT, IntT)), ListOf(FloatT)}

\* typing.Union keeps the declared order of its (distinct) members
Unions ==
  UNION {{UnionOf(ms) : ms \in {q \in [1..n -> UnionMembers] :
                                  \A i, j \in 1..n : i # j => q[i] # q[j]}} :
         n \in 2..MaxUnion}

CastHints ==
  {IntT, StrT, FloatT, BoolT, BareListT, ListOf(IntT), ListOf(StrT),
   DictOf(StrT, IntT), TupleOf(<<IntT, StrT>>), TupleOf(<<IntT, EllipsisT>>),
   SetOf(IntT), FrozenSetOf(IntT), DequeOf(IntT), CounterOf(StrT),
   ForwardRef("Node"), ForwardRef("str"), Optional(ForwardRef("Node")),
   DictOf(TupleOf(<<IntT, StrT>>), IntT), DictOf(UnionOf(<<IntT, StrT>>), IntT),
   SequenceOf(IntT), IterableOf(IntT)}
    \cup Unions

InitCast ==
  /\ klass = NoClass
  /\ objs = <<>>
  /\ last = NoLast
  /\ cin \in [v : CastValues, hint : CastHints]
  /\ cout = NoOutcome
  /\ types = <<>>
  /\ cmp = NoCompare
  /\ heap = <<>>

Cast ==
  /\ ~cout.done
  /\ cout' = [cout EXCEPT !.done = TRUE, !.r = cast_value(cin.v, cin.hint)]
  /\ UNCHANGED <<klass, objs, last, cin, types, cmp, heap>>

\* cast_value applied to the value a cast returned, with the same hint
Recast ==
  /\ cout.done /\ cout.r.ok
  /\ ~cout.again.done
  /\ cout' = [cout EXCEPT !.again = [done |-> TRUE, r |-> cast_value(cout.r.v, cin.hint)]]
  /\ UNCHANGED <<klass, objs, last, cin, types, cmp, heap>>

\* validate_value_hint applied to the same value and hint
Validate ==
  /\ ~cout.valid.done
  /\ cout' = [cout EXCEPT !.valid = [done |-> TRUE,
                                      ok |-> validate_value_hint(cin.v, cin.hint)]]
  /\ UNCHANGED <<klass, objs, last, cin, types, cmp, heap>>

NextCast == Cast \/ Recast \/ Validate

SpecCast == InitCast /\ [][NextCast]_vars

\* class statements of a hierarchy: each new class extends Classno or a class
\* declared before it
MaxTypes == 2

TypeNames == <<"Parent", "Child", "Grandchild", "Descendant">>

OwnNames == {<<"a">>, <<"b">>, <<"b", "a">>}

OwnFeatures == {[has |-> FALSE, v |-> {}], Assigned({"EQ", "HASH"}), Assigned(DEFAULT)}

OwnKeys ==
  {NoKeys, [NoKeys EXCEPT !["__eq_keys__"] = Assigned(<<"a">>)],
   [NoKeys EXCEPT !["__hash_keys__"] = Assigned(<<>>)],
   [NoKeys EXCEPT !["__eq_keys__"] = Assigned(<<>>)]}

DeclareType ==
  /\ Len(types) < MaxTypes
  /\ \E base \in 0..Len(types), own \in OwnNames, features \in OwnFeatures,
        keys \in OwnKeys :
       types' = Append(types, MetaClassno_new_type(types,
                  TypeDecl(TypeNames[Len(types) + 1], base, own, features, keys)))
  /\ UNCHANGED <<klass, objs, last, cin, cout, cmp, heap>>

NextKeys == DeclareType

SpecKeys == Init /\ [][NextKeys]_vars

\* comparisons and hashes between instances of one hierarchy: Parent, its
\* subclass Child that adds a field, and Versioned, which compares by one key
ParentType ==
  MetaClassno_new_type(<<>>,
    TypeDecl("Parent", 0, <<"a">>, Assigned({"EQ", "HASH", "ORDER"}), NoKeys))

ChildType ==
  MetaClassno_new_type(<<ParentType>>,
    TypeDecl("Child", 1, <<"b">>, [has |-> FALSE, v |-> {}], NoKeys))

VersionedType ==
  MetaClassno_new_type(<<ParentType, ChildType>>,
    TypeDecl("Versioned", 0, <<"a", "b">>, Assigned({"EQ", "HASH", "ORDER"}),
             [NoKeys EXCEPT !["__eq_keys__"] = Assigned(<<"a">>)]))

CompareTypes == <<ParentType, ChildType, VersionedType>>

SB == S(<<"b">>)

\* set([0, 8]) and set([8, 0]) are equal and iterate in the order built
FieldValues ==
  {IntV(1), IntV(2), ListV(<<IntV(1)>>),
   SetV(<<IntV(0), IntV(8)>>), SetV(<<IntV(8), IntV(0)>>),
   DictV(<<PairV(SA, IntV(1)), PairV(SB, IntV(2))>>),
   DictV(<<PairV(SB, IntV(2)), PairV(SA, IntV(1))>>),
   DictV(<<PairV(IntV(1), SA), PairV(SA, IntV(1))>>)}

Instances(ts) ==
  UNION {{Instance(c, vals) :
            vals \in {q \in [1..Len(ts[c].fields) -> FieldValues] :
                        \A i \in 2..Len(ts[c].fields) : q[i] \in {IntV(1), IntV(2)}}} :
         c \in 1..Len(ts)}

NonRecords == {NonRecord(IntV(1)), NonRecord(NoneV), NonRecord(TupleV(<<IntV(1)>>))}

InitCompare ==
  /\ klass = NoClass
  /\ objs = <<>>
  /\ last = NoLast
  /\ cin = NoCall
  /\ cout = NoOutcome
  /\ types = CompareTypes
  /\ \E self \in Instances(CompareTypes),
        other \in Instances(CompareTypes) \cup NonRecords :
       cmp = [NoCompare EXCEPT !.self = self, !.other = other]
  /\ heap = <<>>

\* self == other
CallEq ==
  /\ ~cmp.eq.done
  /\ \E c \in {__eq__(types, cmp.self, cmp.other)} :
       cmp' = [cmp EXCEPT !.eq = [done |-> TRUE, op |-> "eq", r |-> c.r, read |-> c.read]]
  /\ UNCHANGED <<klass, objs, last, cin, cout, types, heap>>

\* self < other, self <= other, self > other, self >= other
CallOrder ==
  /\ ~cmp.ord.done
  /\ \E op \in {"lt", "le", "gt", "ge"} :
     \E c \in {OrderDunder(types, cmp.self, cmp.other, op)} :
       cmp' = [cmp EXCEPT !.ord = [done |-> TRUE, op |-> op, r |-> c.r, read |-> c.read]]
  /\ UNCHANGED <<klass, objs, last, cin, cout, types, heap>>

\* hash(self) and hash(other), for two instances
CallHash ==
  /\ ~cmp.hash.done /\ cmp.other.inst
  /\ cmp' = [cmp EXCEPT !.hash = [done |-> TRUE, self |-> __hash__(types, cmp.self),
                                   other |-> __hash__(types, cmp.other)]]
  /\ UNCHANGED <<klass, objs, last, cin, cout, types, heap>>

NextCompare == CallEq \/ CallOrder \/ CallHash

SpecCompare == InitCompare /\ [][NextCompare]_vars

\* class statements whose field tables share Field objects: a Field is an
\* object on the heap, a class attribute refers to it by its position, and a
\* field table lists, per annotated name, the position of its Field
FieldRef(ref) == [kind |-> "Field", v |-> NoneV, ref |-> ref]
ValueAttr(v) == [kind |-> "value", v |-> v, ref |-> 0]
AbsentAttr == [kind |-> "absent", v |-> NoneV, ref |-> 0]

\* the class body: every field(...) marker allocates a Field, every literal is
\* stored as it is; dict lists the attributes the body assigns, by name
RECURSIVE EvalBody(_, _, _, _)
EvalBody(h, decls, i, dict) ==
  IF i > Len(decls) THEN [ok |-> TRUE, heap |-> h, dict |-> dict]
  ELSE IF decls[i].kind = "field"
  THEN (IF ~field(decls[i].default, decls[i].default_factory).ok
        THEN [ok |-> FALSE, heap |-> h, dict |-> dict]
        ELSE EvalBody(Append(h, field(decls[i].default, decls[i].default_factory).f),
                      decls, i + 1,
                      Append(dict, [name |-> decls[i].name, attr |-> FieldRef(Len(h) + 1)])))
  ELSE IF decls[i].kind = "bare"
  THEN EvalBody(h, decls, i + 1,
                Append(dict, [name |-> decls[i].name, attr |-> ValueAttr(decls[i].default.v)]))
  ELSE EvalBody(h, decls, i + 1, dict)

\* typing.get_type_hints(cls): the hints of the bases, each name at the place
\* of its first annotation and with the hint of its last one, then the names
\* the body adds
get_type_hints(inherited, decls) ==
  LET own(name) == {i \in 1..Len(decls) : decls[i].name = name}
      kept == [j \in 1..Len(inherited) |->
                 IF own(inherited[j].name) = {} THEN inherited[j]
                 ELSE [name |-> inherited[j].name,
                       hint |-> decls[CHOOSE i \in own(inherited[j].name) : TRUE].hint]]
      added == SelectSeq(decls, LAMBDA d : \A j \in 1..Len(inherited) : inherited[j].name # d.name)
  IN kept \o [i \in 1..Len(added) |-> [name |-> added[i].name, hint |-> added[i].hint]]

\* getattr(cls, name, c.MISSING): the dict of the class, then of its bases
RECURSIVE InheritedAttr(_, _, _)
InheritedAttr(ts, idx, name) ==
  IF idx = 0 THEN AbsentAttr
  ELSE IF \E i \in 1..Len(ts[idx].dict) : ts[idx].dict[i].name = name
  THEN ts[idx].dict[CHOOSE i \in 1..Len(ts[idx].dict) : ts[idx].dict[i].name = name].attr
  ELSE InheritedAttr(ts, ts[idx].base, name)

ClassAttr(ts, base, dict, name) ==
  IF \E i \in 1..Len(dict) : dict[i].name = name
  THEN dict[CHOOSE i \in 1..Len(dict) : dict[i].name = name].attr
  ELSE InheritedAttr(ts, base, name)

\* the loop of set_fields on a class with bases: a Field found under the name
\* is taken as it is, anything else goes through field(default=attr); then
\* f.name and f.hint are assigned on the object
RECURSIVE set_fields_inherited(_, _, _, _, _, _, _)
set_fields_inherited(h, ts, base, dict, hints, i, refs) ==
  IF i > Len(hints) THEN [ok |-> TRUE, heap |-> h, fields |-> refs]
  ELSE LET attr == ClassAttr(ts, base, dict, hints[i].name)
           made == field(IF attr.kind = "value" THEN Present(attr.v) ELSE MISSING, "")
       IN IF attr.kind = "Field"
          THEN set_fields_inherited(
                 [h EXCEPT ![attr.ref].name = hints[i].name, ![attr.ref].hint = hints[i].hint],
                 ts, base, dict, hints, i + 1, Append(refs, attr.ref))
          ELSE IF ~made.ok THEN [ok |-> FALSE, heap |-> h, fields |-> refs]
          ELSE set_fields_inherited(
                 Append(h, [made.f EXCEPT !.name = hints[i].name, !.hint = hints[i].hint]),
                 ts, base, dict, hints, i + 1, Append(refs, Len(h) + 1))

\* the class statement "class name(base): __features__ = features; decls":
\* the body, then MetaClassno.__new__ with its set_fields hook
MetaClassno_new_class(h, ts, name, base, features, decls) ==
  LET body == EvalBody(h, decls, 1, <<>>)
      hints == get_type_hints(IF base = 0 THEN <<>> ELSE ts[base].hints, decls)
      f == set_fields_inherited(body.heap, ts, base, body.dict, hints, 1, <<>>)
  IN IF ~body.ok THEN [ok |-> FALSE, heap |-> h, class |-> <<>>]
     ELSE IF ~f.ok THEN [ok |-> FALSE, heap |-> SubSeq(f.heap, 1, Len(h)), class |-> <<>>]
     ELSE [ok |-> TRUE, heap |-> f.heap,
           class |-> <<[name |-> name, base |-> base, features |-> features,
                        hints |-> hints, dict |-> body.dict, fields |-> f.fields]>>]

\* cls.__fields__ as values: name, hint, default and default_factory per field
FieldTable(ts, h, idx) == [i \in 1..Len(ts[idx].fields) |-> h[ts[idx].fields[i]]]

\* class statements: the features the body assigns and its annotations
Statement(features, decls) == [features |-> features, decls |-> decls]

ClassStatements ==
  {Statement({"VALIDATION"}, <<Decl(N("x"), IntT, "field", Present(IntV(1)), "")>>),
   Statement({"VALIDATION"}, <<Decl(N("x"), IntT, "bare", Present(IntV(3)), "")>>),
   Statement({"VALIDATION"}, <<Decl(N("x"), StrT, "none", MISSING, "")>>),
   Statement({}, <<Decl(N("y"), IntT, "none", MISSING, "")>>),
   Statement({"VALIDATION", "LOSSY_AUTOCAST"},
             <<Decl(N("items"), ListOf(StrT), "field", MISSING, "list")>>),
   Statement({"VALIDATION"}, <<Decl(N("items"), ListOf(IntT), "none", MISSING, "")>>),
   Statement({}, <<Decl(N("y"), BareListT, "bare", Present(ListV(<<>>)), "")>>),
   Statement({"VALIDATION"},
             <<Decl(N("x"), StrT, "none", MISSING, ""),
               Decl(N("y"), BareListT, "bare", Present(ListV(<<>>)), "")>>),
   Statement({"VALIDATION", "LOSSY_AUTOCAST"},
             <<Decl(N("x"), IntT, "field", Present(IntV(1)), ""),
               Decl(N("y"), StrT, "bare", Present(StrV(SA)), "")>>),
   Statement({}, <<Decl(N("y"), StrT, "field", Present(StrV(SA)), ""),
                   Decl(N("x"), IntT, "none", MISSING, "")>>)}

HierarchyWriteValues == {IntV(7), Text42}

InstanceIds(os) == UNION {{os[i].slots[j].id : j \in 1..Len(os[i].slots)} : i \in 1..Len(os)}

DeclareClass ==
  /\ Len(types) < MaxTypes
  /\ \E base \in 0..Len(types), body \in ClassStatements :
     \E r \in {MetaClassno_new_class(heap, types, TypeNames[Len(types) + 1], base,
                                     body.features, body.decls)} :
       /\ types' = types \o r.class
       /\ heap' = r.heap
  /\ UNCHANGED <<klass, objs, last, cin, cout, cmp>>

\* MetaClassno.__call__ on a class of the hierarchy: init_obj, then
\* process_obj_features, both reading cls.__fields__; a behaviour follows one
\* instance
ConstructOf ==
  /\ objs = <<>>
  /\ \E idx \in 1..Len(types) :
     \E fields \in {FieldTable(types, heap, idx)} :
     \E kwargs \in KwargsFor(fields) :
     \E i \in {init_obj(fields, kwargs, InstanceIds(objs))} :
     \E p \in {process_obj_features(types[idx].features, fields, i.slots,
                   InstanceIds(objs) \cup {i.slots[j].id : j \in 1..Len(i.slots)})} :
       objs' = IF i.exc # "" \/ p.exc # "" THEN objs
               ELSE <<[cls |-> idx, slots |-> p.slots]>>
  /\ UNCHANGED <<klass, last, cin, cout, types, cmp, heap>>

\* obj.name = value through setattr_processor, for the name of a field
WriteTo ==
  /\ \E t \in 1..Len(objs) :
     \E fields \in {FieldTable(types, heap, objs[t].cls)} :
     \E j \in 1..Len(fields), value \in HierarchyWriteValues :
     \E r \in {setattr_processor(types[objs[t].cls].features, types[objs[t].cls].name,
                                  fields, fields[j].name, value)} :
       objs' = IF r.res.exc # "" THEN objs
               ELSE [objs EXCEPT ![t].slots[j] =
                       Slot(r.res.value, IdFor(r.res.value, InstanceIds(objs)))]
  /\ UNCHANGED <<klass, last, cin, cout, types, cmp, heap>>

NextFields == DeclareClass \/ ConstructOf \/ WriteTo

SpecFields == Init /\ [][NextFields]_vars

(***************************************************************************)
(* Properties                                                              *)
(***************************************************************************)
Values(slots) == [i \in 1..Len(slots) |-> slots[i].v]
HasBoth == {"VALIDATION", "LOSSY_AUTOCAST"} \subseteq klass.features
FieldNames == {klass.fields[i].name : i \in 1..Len(klass.fields)}
InSeq(x, seq) == \E i \in 1..Len(seq) : seq[i] = x

\* the slots init_obj filled for the construction last describes
Populated == init_obj(klass.fields, last.kwargs, {}).slots

\* C1: constructing an instance of a type with LOSSY_AUTOCAST and VALIDATION
\* runs the casting hook over all fields before the validation hook: whenever
\* casting the populated fields succeeds and the cast values are valid, the
\* construction returns an instance that holds the cast values.
C1_CastBeforeValidationAtConstruction ==
  (last.op = "init" /\ last.missing = <<>> /\ HasBoth) =>
     LET c == cast_fields(klass.fields, Populated, {})
     IN (c.exc = "" /\ validate_fields(klass.fields, c.slots).exc = "")
           => /\ last.exc = ""
              /\ last.target \in 1..Len(objs)
              /\ Values(objs[last.target].slots) = Values(c.slots)

\* the field a write resolves to after the name-resolution stage
WriteResolution ==
  IF "PRIVATE" \in klass.features THEN private_name_retrieval(klass.fields, last.name)
  ELSE [ok |-> TRUE, name |-> last.name, msg |-> ""]

\* the last call was a write that passed name resolution and the mutation
\* guard on a type with both LOSSY_AUTOCAST and VALIDATION
WriteReachedCoercion ==
  /\ last.op = "setattr" /\ HasBoth /\ "FROZEN" \notin klass.features
  /\ WriteResolution.ok /\ InFields(klass.fields, WriteResolution.name)

WrittenIndex == FieldIndex(klass.fields, WriteResolution.name)
WrittenHint == klass.fields[WrittenIndex].hint

\* C2: on a write to a type with LOSSY_AUTOCAST and VALIDATION the coercion
\* stage runs before the verification stage and verification sees the coerced
\* value: a write whose coerced value is valid commits the coerced value, a
\* write is rejected by verification exactly when its coerced value is invalid,
\* and a write whose coercion fails never reaches verification.
C2_CoercionBeforeVerification ==
  WriteReachedCoercion =>
     LET c == cast_value(last.value, WrittenHint)
         valid == validate_value_hint(c.v, WrittenHint)
     IN /\ (c.ok /\ valid) =>
             /\ last.exc = ""
             /\ last.final = c.v
             /\ objs[last.target].slots[WrittenIndex].v = c.v
        /\ (c.ok /\ ~valid) =>
             /\ last.exc = "TypeError" /\ last.msg = "expected type"
        /\ ~c.ok => /\ last.exc = c.exc
                    /\ ~InSeq("VALIDATION", last.stages)
        /\ \A i, j \in 1..Len(last.stages) :
             (last.stages[i] = "LOSSY_AUTOCAST" /\ last.stages[j] = "VALIDATION") => i < j

\* a committed write whose original value was invalid and whose coerced value
\* differs from it
C2_Witness ==
  /\ WriteReachedCoercion
  /\ last.exc = ""
  /\ ~validate_value_hint(last.value, WrittenHint)
  /\ last.final # last.value
  /\ validate_value_hint(last.final, WrittenHint)
  /\ objs[last.target].slots[WrittenIndex].v = last.final

IsFrozen == klass.declared /\ "FROZEN" \in klass.features
FieldsAsBorn == \A t \in 1..Len(objs) : objs[t].slots = objs[t].born

\* C3, as the specification states it: for a FROZEN type every write and every delete after
\* construction raises an error naming the type, and the field values stay
\* those construction returned.
C3_FrozenRejectsNamingType ==
  IsFrozen =>
    /\ FieldsAsBorn
    /\ last.op \in {"setattr", "delattr"} => (last.exc # "" /\ last.msg = klass.name)

\* C3, restricted to what the write pipeline does: for a FROZEN type every write and every delete after
\* construction raises an error and the field values stay those construction
\* returned; the error names the type unless the type is also PRIVATE and the
\* name-resolution stage rejected the written name first.
C3_FrozenRejects ==
  IsFrozen =>
    /\ FieldsAsBorn
    /\ last.op \in {"setattr", "delattr"} =>
         /\ last.exc # ""
         /\ \/ last.msg = klass.name
            \/ /\ last.op = "setattr" /\ "PRIVATE" \in klass.features
               /\ ~WriteResolution.ok /\ last.stages = <<"PRIVATE">>

\* a write to a field of an instance of a frozen type was rejected by the guard
C3_Witness ==
  /\ IsFrozen
  /\ last.op = "setattr" /\ last.name \in FieldNames
  /\ last.exc = "Exception" /\ last.msg = klass.name
  /\ last.value # objs[last.target].slots[FieldIndex(klass.fields, last.name)].v

\* C4: for every flag set that contains FROZEN the composed type has the
\* mutation guard as its write and delete hook, and a write is rejected before
\* any coercion, verification or commit stage runs.
C4_GuardAlwaysInstalled ==
  IsFrozen =>
    /\ klass.setattr = "frozen_setattr"
    /\ klass.delattr = "frozen_setattr"
    /\ last.op = "setattr" =>
         /\ last.exc # ""
         /\ \A i \in 1..Len(last.stages) :
              last.stages[i] \notin {"LOSSY_AUTOCAST", "VALIDATION", "commit"}

\* the fields the class statement declares without default and without
\* factory, and that got no keyword argument, in declaration order
RECURSIVE RequiredFrom(_, _, _)
RequiredFrom(decls, kwargs, i) ==
  IF i > Len(decls) THEN <<>>
  ELSE (IF ~kwargs[i].has
           /\ (decls[i].kind = "none"
               \/ (decls[i].kind = "field" /\ ~decls[i].default.has
                   /\ decls[i].default_factory = ""))
        THEN <<decls[i].name>> ELSE <<>>)
         \o RequiredFrom(decls, kwargs, i + 1)

\* C5: a construction fails with the missing-fields error exactly when some
\* declared field has no keyword value, no static default and no factory; the
\* error lists exactly those fields in declaration order, after every other
\* field was populated.
C5_MissingFieldsExact ==
  last.op = "init" =>
     LET required == RequiredFrom(klass.body.decls, last.kwargs, 1)
     IN /\ (required = <<>>) => last.exc # "TypeError"
        /\ (required # <<>>) =>
             /\ last.exc = "TypeError"
             /\ last.missing = required
             /\ \A i \in 1..Len(klass.fields) :
                  last.slots[i].set <=> ~InSeq(klass.fields[i].name, required)

Count(x, seq) == Cardinality({i \in 1..Len(seq) : seq[i] = x})

\* C6: a construction invokes the factory of a field exactly once when no
\* keyword value is given for it and not at all when one is given, and no two
\* instances hold the same container object.
C6_FactoryOncePerInstance ==
  /\ (last.op = "init" /\ last.exc # "TypeError") =>
       \A i \in 1..Len(klass.body.decls) :
          LET d == klass.body.decls[i]
          IN (d.kind = "field" /\ d.default_factory # "") =>
               Count(d.name, last.called) = IF last.kwargs[i].has THEN 0 ELSE 1
  /\ \A t, u \in 1..Len(objs) : \A i, j \in 1..Len(klass.fields) :
       (t # u /\ objs[t].slots[i].id > 0) => objs[t].slots[i].id # objs[u].slots[j].id

\* C7: no type is declared whose class statement gives a field a list, dict,
\* set or bytearray as literal default, bare or through default=, whatever the
\* flags of the type.
C7_MutableDefaultRejected ==
  klass.declared =>
     \A i \in 1..Len(klass.body.decls) :
        LET d == klass.body.decls[i]
        IN (d.kind \in {"bare", "field"} /\ d.default.has)
             => d.default.v.k \notin {"list", "dict", "set", "bytearray"}

IsUnionCall == cout.done /\ cin.hint.o = "Union"
Members == cin.hint.args

\* the first member the value is an instance of (of its class, or of its
\* origin), 0 when there is none
FirstMatch ==
  LET hits == {i \in 1..Len(Members) :
                 Members[i] # NoneT /\ IsInstance(cin.v, Members[i].o)}
  IN IF hits = {} THEN 0 ELSE CHOOSE i \in hits : \A j \in hits : i <= j

\* C8: casting None into a union with an absence member returns None, and
\* casting a value that is an instance of a non-absence primitive member
\* returns that very value, whatever the order of the members.
C8_UnionKeepsMemberValues ==
  IsUnionCall =>
    /\ (cin.v = NoneV /\ InSeq(NoneT, Members)) => (cout.r.ok /\ cout.r.v = NoneV)
    /\ (\E i \in 1..Len(Members) :
          Members[i] # NoneT /\ ~Members[i].g /\ IsInstance(cin.v, Members[i].o))
         => (cout.r.ok /\ cout.r.v = cin.v /\ cout.r.same)

\* C9: when the value matches no member, the union cast returns the cast into
\* the first member (in declared order, the absence member skipped) whose cast
\* succeeds, and fails with the one "cannot cast to any type in union" failure
\* when no cast succeeds.
C9_UnionFirstSuccessfulMember ==
  (IsUnionCall /\ FirstMatch = 0 /\ ~(cin.v = NoneV /\ InSeq(NoneT, Members))) =>
     LET succ == {i \in 1..Len(Members) :
                    Members[i] # NoneT /\ cast_value(cin.v, Members[i]).ok}
     IN IF succ = {}
        THEN ~cout.r.ok /\ cout.r.exc = "TypeError" /\ cout.r.msg = "union"
        ELSE cout.r = cast_value(cin.v, Members[CHOOSE i \in succ : \A j \in succ : i <= j])

\* C10: when the first member the value matches is a container member and
\* casting the elements into it fails, the union cast returns the value
\* unchanged.
C10_ContainerMatchReturnsUnchanged ==
  (IsUnionCall /\ FirstMatch # 0 /\ ~(cin.v = NoneV /\ InSeq(NoneT, Members))) =>
     ( (Members[FirstMatch].g /\ ~cast_value(cin.v, Members[FirstMatch]).ok)
        => (cout.r.ok /\ cout.r.v = cin.v /\ cout.r.same) )

(***************************************************************************)
(* C11: casting is idempotent.  Whenever cast_value(v, T) returns, casting *)
(* the returned value into T again returns too, and returns a value equal  *)
(* to the first result.                                                    *)
(***************************************************************************)
C11_CastIdempotent ==
  cout.again.done => cout.again.r.ok /\ PyEq(cout.again.r.v, cout.r.v)

(***************************************************************************)
(* C12: the caster is the identity on valid values.  A value that          *)
(* validates against T is returned by cast_value(v, T), equal to itself.   *)
(***************************************************************************)
RECURSIVE HasForwardRef(_)
HasForwardRef(hint) ==
  hint.o = "ForwardRef" \/ \E i \in 1..Len(hint.args) : HasForwardRef(hint.args[i])

\* (a shape holding a reference by name is left out: no value is cast into it)
C12_CastKeepsValidValues ==
  cout.done /\ cout.valid.done /\ cout.valid.ok /\ ~HasForwardRef(cin.hint)
    => cout.r.ok /\ PyEq(cout.r.v, cin.v)

(***************************************************************************)
(* C13: a cast ends in a returned value or in a TypeError; no exception of *)
(* another class leaves cast_value.                                        *)
(***************************************************************************)
C13_CastRaisesOnlyTypeError ==
  cout.done => cout.r.ok \/ cout.r.exc = "TypeError"

(***************************************************************************)
(* C14: construction with VALIDATION checks every field.  When init_obj    *)
(* has populated the instance, the construction raises ValidationError     *)
(* exactly when at least one field value fails its hint, and the error     *)
(* then holds one entry per failing field, in declaration order, and none  *)
(* for a field that passes.                                                *)
(***************************************************************************)
\* the values init_obj gave the fields of the last construction
PopulatedSlots == init_obj(klass.fields, last.kwargs, {}).slots

RECURSIVE FailingFields(_, _, _)
FailingFields(fields, slots, i) ==
  IF i > Len(fields) THEN <<>>
  ELSE (IF validate_value_hint(slots[i].v, fields[i].hint) THEN <<>>
        ELSE <<fields[i].name>>) \o FailingFields(fields, slots, i + 1)

ValidatedConstruction ==
  /\ last.op = "init" /\ "VALIDATION" \in klass.features
  /\ last.missing = <<>>

C14_Aggregated(failing) ==
  /\ (failing # <<>>) <=> (last.exc = "ValidationError")
  /\ last.exc = "ValidationError" => last.errors = failing

C14_ValidationAggregatesAllFields ==
  ValidatedConstruction
    => C14_Aggregated(FailingFields(klass.fields, PopulatedSlots, 1))

\* two fields fail in one construction
C14_Witness ==
  /\ ValidatedConstruction
  /\ last.exc = "ValidationError" /\ Len(last.errors) = 2

(***************************************************************************)
(* C15: construction with LOSSY_AUTOCAST casts every field.  When          *)
(* cast_fields runs, the construction raises CastingError exactly when the *)
(* cast of at least one field fails, the error then holds one entry per    *)
(* failing field, and no failure of a single field leaves the construction *)
(* as another exception.                                                   *)
(***************************************************************************)
RECURSIVE CastFailingFields(_, _, _)
CastFailingFields(fields, slots, i) ==
  IF i > Len(fields) THEN <<>>
  ELSE (IF cast_value(slots[i].v, fields[i].hint).ok THEN <<>>
        ELSE <<fields[i].name>>) \o CastFailingFields(fields, slots, i + 1)

CastConstruction ==
  /\ last.op = "init" /\ "LOSSY_AUTOCAST" \in klass.features
  /\ last.missing = <<>> /\ last.exc # "ValidationError"

C15_Aggregated(failing) ==
  /\ (failing # <<>>) <=> (last.exc = "CastingError")
  /\ last.exc \in {"", "CastingError"}
  /\ last.exc = "CastingError" => last.errors = failing

C15_CastingAggregatesAllFields ==
  CastConstruction
    => C15_Aggregated(CastFailingFields(klass.fields, PopulatedSlots, 1))

(***************************************************************************)
(* C16: a reference by name.  Validation against ForwardRef("Name")        *)
(* succeeds exactly when the name of the class of the value is "Name", and *)
(* a cast into such a hint never returns, whatever the value.              *)
(***************************************************************************)
C16_ForwardRefByNameOnly ==
  cin.hint.o = "ForwardRef"
    => /\ cout.valid.done => (cout.valid.ok <=> ClassName(cin.v) = cin.hint.args[1].o)
       /\ cout.done => ~cout.r.ok

\* an instance of the named class: validated, and refused by the caster
C16_Witness ==
  /\ cin.hint = ForwardRef("Node") /\ cin.v = ObjV("Node")
  /\ cout.valid.done /\ cout.valid.ok
  /\ cout.done /\ ~cout.r.ok

(***************************************************************************)
(* C17: tuples.  Against a tuple hint of fixed arity, validation and       *)
(* casting fail when the number of elements differs from the arity, and    *)
(* otherwise go position by position; against a variadic tuple hint every  *)
(* element meets the single element hint, for any length, zero included.   *)
(***************************************************************************)
IsVariadic(hint) == Len(hint.args) = 2 /\ hint.args[2] = EllipsisT

\* the hint position i of the value is matched against
PositionHint(hint, i) == IF IsVariadic(hint) THEN hint.args[1] ELSE hint.args[i]

ArityFits(hint, n) == IsVariadic(hint) \/ Len(hint.args) = n

C17_Validation(value, hint) ==
  cout.valid.ok
    <=> /\ value.k = "tuple" /\ ArityFits(hint, Len(value.e))
        /\ \A i \in 1..Len(value.e) :
             validate_value_hint(value.e[i], PositionHint(hint, i))

C17_Casting(es, hint) ==
  /\ ~ArityFits(hint, Len(es)) => ~cout.r.ok
  /\ ArityFits(hint, Len(es))
       => /\ cout.r.ok <=> \A i \in 1..Len(es) : cast_value(es[i], PositionHint(hint, i)).ok
          /\ cout.r.ok
               => cout.r.v = TupleV([i \in 1..Len(es) |->
                                       cast_value(es[i], PositionHint(hint, i)).v])

C17_TupleArity ==
  cin.hint.o = "tuple" /\ cin.hint.g
    => /\ cout.valid.done => C17_Validation(cin.v, cin.hint)
       /\ cout.done /\ HasLen(cin.v) => C17_Casting(Iterate(cin.v).es, cin.hint)

\* three elements against an arity of two, each position castable on its own
C17_Witness ==
  /\ cin.hint = TupleOf(<<IntT, StrT>>) /\ cin.v = TupleV(<<S1, SA, SA>>)
  /\ cout.valid.done /\ ~cout.valid.ok
  /\ cout.done /\ ~cout.r.ok

(***************************************************************************)
(* C20: default key tuples.  For every declared type and each of the eq,   *)
(* hash and order key tuples whose feature is enabled and that no class    *)
(* statement of the type or of its bases assigns, the tuple is the tuple   *)
(* of all field names of the type, in declaration order; so too for a      *)
(* subclass that adds fields to a parent whose tuples were defaulted.      *)
(***************************************************************************)
RECURSIVE KeysAssigned(_, _)
KeysAssigned(idx, attr) ==
  idx # 0 /\ (types[idx].decl.keys[attr].has \/ KeysAssigned(types[idx].base, attr))

C20_DefaultKeysAreAllFields ==
  \A idx \in 1..Len(types), attr \in KeyAttrs :
     KeyFeature(attr) \in types[idx].features /\ ~KeysAssigned(idx, attr)
       => ClassKeys(types, idx, attr) = types[idx].fields

(***************************************************************************)
(* C18: hash agrees with ==.  For two instances of a type with EQ and HASH *)
(* whose hash keys are its eq keys, a == b implies hash(a) == hash(b),     *)
(* also when the key fields hold lists, sets or dicts, and whatever the    *)
(* order in which an equal set or dict was built.                          *)
(***************************************************************************)
EqualOperands ==
  /\ cmp.eq.done /\ cmp.hash.done
  /\ cmp.other.inst /\ cmp.other.cls = cmp.self.cls
  /\ {"EQ", "HASH"} \subseteq types[cmp.self.cls].features
  /\ ClassKeys(types, cmp.self.cls, "__hash_keys__")
       = ClassKeys(types, cmp.self.cls, "__eq_keys__")
  /\ cmp.eq.r = Ok(BoolV(TRUE), FALSE)

C18_EqualInstancesHashEqual ==
  EqualOperands
    => /\ cmp.hash.self.ok /\ cmp.hash.other.ok
       /\ PyEq(cmp.hash.self.v, cmp.hash.other.v)

(***************************************************************************)
(* C19: comparison across types.  ==, <, <=, > and >= between an instance  *)
(* and an object whose class is not the very class of the instance (an     *)
(* instance of a parent, of a subclass, of another type, or no instance at *)
(* all) return NotImplemented, raise nothing and fetch no field value.     *)
(***************************************************************************)
NotCompared(res) ==
  res.done => res.r = Ok(NotImplementedV, FALSE) /\ ~res.read

C19_OtherClassNotImplemented ==
  ~(cmp.other.inst /\ cmp.other.cls = cmp.self.cls)
    => NotCompared(cmp.eq) /\ NotCompared(cmp.ord)

\* a Parent compared with an instance of its subclass Child
C19_Witness ==
  /\ cmp.self.inst /\ cmp.self.cls = 1
  /\ cmp.other.inst /\ cmp.other.cls = 2
  /\ cmp.eq.done /\ cmp.ord.done

(***************************************************************************)
(* C21: declared key tuples.  A key tuple that the class statement of a    *)
(* type assigns is the key tuple of the type, exactly as assigned and      *)
(* never replaced by the tuple of all field names; an assigned empty       *)
(* __eq_keys__ stays empty, so that any two instances compare equal.       *)
(***************************************************************************)
C21_DeclaredKeysKept ==
  \A idx \in 1..Len(types), attr \in KeyAttrs :
     types[idx].decl.keys[attr].has
       => ClassKeys(types, idx, attr) = types[idx].decl.keys[attr].v

(***************************************************************************)
(* C22: public writes on a PRIVATE type.  A write, after construction, to  *)
(* the name of a declared field without a leading underscore is rejected   *)
(* and leaves the fields of every instance as they were, whatever the      *)
(* name of the field.                                                      *)
(***************************************************************************)
IsPublicFieldWrite(l) ==
  /\ l.op = "setattr" /\ "PRIVATE" \in klass.features
  /\ l.name.us = 0 /\ InFields(klass.fields, l.name)

C22_PublicWriteRejected ==
  [][IsPublicFieldWrite(last') => (last'.exc # "" /\ objs' = objs)]_vars

(***************************************************************************)
(* C23: underscore writes on a PRIVATE type.  A write to _n goes to the    *)
(* field n when n is a declared field, and reading n and reading _n then   *)
(* both return the written value; when n is no declared field the write    *)
(* is rejected as "not found" and no field changes.                        *)
(***************************************************************************)
IsUnderscoreWrite(l) ==
  l.op = "setattr" /\ "PRIVATE" \in klass.features /\ l.name.us > 0

Bare(name) == [name EXCEPT !.us = @ - 1]

\* the write passed name resolution as a write to field n; when no later
\* stage rejected it, field n holds the value and both spellings read it
StoredUnder(l, slots, n, spellings) ==
  /\ Len(l.stages) > 1
  /\ l.exc = ""
       => /\ l.resolved = n
          /\ slots[FieldIndex(klass.fields, n)].v = l.final
          /\ \A name \in spellings : Getattr(klass, slots, name) = Ok(l.final, TRUE)

RejectedNotFound(l) ==
  l.exc = "Exception" /\ l.msg = "not found" /\ l.stages = <<"PRIVATE">>

C24_CopySharesFieldObjects ==
  last.op = "copy"
    => /\ last.exc = ""
       /\ Len(objs) > last.target
       /\ \A j \in 1..Len(klass.fields) :
            /\ PyEq(last.slots[j].v, objs[last.target].slots[j].v)
            /\ last.slots[j].id = objs[last.target].slots[j].id

(***************************************************************************)
(* C25: mappings.  Against a mapping hint with a key shape and a value     *)
(* shape, validation of a mapping succeeds exactly when every key meets    *)
(* the key shape and every value the value shape, each under the full      *)
(* matcher, also when the key shape is a union or a tuple shape; and the   *)
(* cast of a mapping returns exactly when the cast of every key and of     *)
(* every value returns.                                                    *)
(***************************************************************************)
IsMappingCall ==
  /\ cin.hint.g /\ cin.hint.o \in DictKinds /\ Len(cin.hint.args) = 2
  /\ cin.v.k \in DictKinds

C25_MappingKeysAndValuesMatched ==
  IsMappingCall
    => /\ cout.valid.done
            => (cout.valid.ok
                 <=> /\ IsInstance(cin.v, cin.hint.o)
                     /\ \A i \in 1..Len(cin.v.e) :
                          /\ validate_value_hint(cin.v.e[i].e[1], cin.hint.args[1])
                          /\ validate_value_hint(cin.v.e[i].e[2], cin.hint.args[2]))
       /\ cout.done
            => (cout.r.ok
                 <=> \A i \in 1..Len(cin.v.e) :
                          /\ cast_value(cin.v.e[i].e[1], cin.hint.args[1]).ok
                          /\ cast_value(cin.v.e[i].e[2], cin.hint.args[2]).ok)

(***************************************************************************)
(* C26: containers without a handler.  Against a hint whose origin has no  *)
(* registered handler and is an iterable class other than str and bytes,   *)
(* validation succeeds exactly when the value is of that class and every   *)
(* element meets the element hint, and a cast that returns has cast every  *)
(* element, also when the value already is of that class.                  *)
(***************************************************************************)
IsFallbackCall ==
  cin.hint.g /\ cin.hint.o \notin CastingOrigins \cup {"Union"} /\ OriginIterable(cin.hint.o)

ElementsCast(es, out, tp) ==
  /\ Len(out) = Len(es)
  /\ \A i \in 1..Len(es) :
       cast_value(es[i], tp).ok /\ out[i] = cast_value(es[i], tp).v

C27_FieldTableNeverChanges ==
  [][\A idx \in 1..Len(types) :
       FieldTable(types', heap', idx) = FieldTable(types, heap, idx)]_vars

(***************************************************************************)
(* C28: on a type with VALIDATION, with or without LOSSY_AUTOCAST, every   *)
(* instance construction returned holds, in every field, a value valid     *)
(* against the hint the class statement annotates the field with, and it   *)
(* still does after any sequence of accepted and rejected writes through   *)
(* setattr_processor.                                                      *)
(***************************************************************************)
C28_ValidatedFieldsStayValid ==
  \A t \in 1..Len(objs) :
    "VALIDATION" \in types[objs[t].cls].features =>
       \A j \in 1..Len(objs[t].slots) :
          objs[t].slots[j].set
            => validate_value_hint(objs[t].slots[j].v, types[objs[t].cls].hints[j].hint)

(***************************************************************************)
(* C29: a write either fails whole or commits one field.  A write through  *)
(* setattr_processor that a stage rejects (the name retrieval of PRIVATE,  *)
(* the guard of FROZEN, a failed cast of LOSSY_AUTOCAST, a failed check of *)
(* VALIDATION on the cast value) raises and leaves every field of every    *)
(* instance as it was.  A write that raises nothing went through every     *)
(* stage the features of the type switch on, in the order of the pipeline, *)
(* and changed no field but the one its name resolved to, which then holds *)
(* the value the stages handed to the commit.                              *)
(***************************************************************************)
\* what the name retrieval stage makes of the name of the write l
ResolutionOf(l) ==
  IF "PRIVATE" \in klass.features THEN private_name_retrieval(klass.fields, l.name)
  ELSE [ok |-> TRUE, name |-> l.name, msg |-> ""]

\* the value the coercion stage hands on for the write l to the field at j
CoercedOf(l, j) ==
  IF "LOSSY_AUTOCAST" \in klass.features THEN cast_value(l.value, klass.fields[j].hint)
  ELSE [ok |-> TRUE, v |-> l.value]

\* some stage of the pipeline rejects the write l
StageRejects(l) ==
  \/ ~ResolutionOf(l).ok
  \/ "FROZEN" \in klass.features
  \/ /\ InFields(klass.fields, ResolutionOf(l).name)
     /\ \E j \in {FieldIndex(klass.fields, ResolutionOf(l).name)} :
          \/ ~CoercedOf(l, j).ok
          \/ /\ "VALIDATION" \in klass.features
             /\ ~validate_value_hint(CoercedOf(l, j).v, klass.fields[j].hint)

ActiveStages ==
  SelectSeq(<<"PRIVATE", "FROZEN", "LOSSY_AUTOCAST", "VALIDATION">>,
            LAMBDA f : f \in klass.features) \o <<"commit">>

\* the slots of os and ps differ at most in field j of instance t
SameBut(os, ps, t, j) ==
  /\ Len(ps) = Len(os)
  /\ \A u \in 1..Len(os) : \A i \in 1..Len(os[u].slots) :
       (u # t \/ i # j) => ps[u].slots[i] = os[u].slots[i]

C29_RejectedWriteChangesNothing ==
  [][last'.op = "setattr" =>
       /\ StageRejects(last') => last'.exc # ""
       /\ last'.exc # "" => objs' = objs
       /\ last'.exc = "" =>
            /\ last'.stages = ActiveStages
            /\ last'.resolved = ResolutionOf(last').name
            /\ IF InFields(klass.fields, last'.resolved)
               THEN \E j \in {FieldIndex(klass.fields, last'.resolved)} :
                      /\ SameBut(objs, objs', last'.target, j)
                      /\ objs'[last'.target].slots[j].v = last'.final
                      /\ last'.final = CoercedOf(last', j).v
               ELSE objs' = objs]_vars

\* a write was rejected by the verification stage after an earlier write
\* had changed one field of the same instance, and one field only
C29_Witness ==
  /\ last.op = "setattr" /\ last.exc = "TypeError"
  /\ InSeq("VALIDATION", last.stages)
  /\ Len(klass.fields) = 2
  /\ \E j \in 1..2 :
       /\ objs[last.target].slots[j].v # objs[last.target].born[j].v
       /\ objs[last.target].slots[3 - j] = objs[last.target].born[3 - j]
       /\ last.value # objs[last.target].slots[j].v

(***************************************************************************)
(* C30: a cast that succeeds returns a value that validates.  Whenever     *)
(* cast_value(v, T) returns, validate_value_hint accepts what it returned  *)
(* against the same T, for every T, unions with container members and the  *)
(* dict-like kinds included.                                               *)
(***************************************************************************)
C30_CastResultValidates ==
  (cout.done /\ cout.r.ok) => validate_value_hint(cout.r.v, cin.hint)
====
